---- MODULE Spec2Model ----
(***************************************************************************)
(* The Verlihub hook dispatcher (plugins/python/scripts/dispatcher.py):   *)
(* the script registry, the per-hook handler lists, the statistics and    *)
(* the dispatch of a hook call to the registered handlers, as executed by *)
(* several host threads.  A `with <lock>:` block of the source that runs  *)
(* no user code is one atomic step, except the loops over the hook names  *)
(* under _hooks_lock, which take one step per list they change (get_stats *)
(* reads the hook table without that lock); user code (a handler, a       *)
(* cleanup callback) runs in a step of its own.                           *)
(***************************************************************************)
EXTENDS Integers, Sequences, FiniteSets, TLC

(***************************************************************************)
(* Bounds of the model.                                                    *)
(***************************************************************************)
\* number of host threads calling into the dispatcher
NThreads == 2
\* number of register_script calls in one behaviour
MaxScripts == 3
\* number of operations one host thread alone runs in one behaviour
MaxOps == 4
\* number of operations the host threads together run in one behaviour
MaxConcOps == 3
\* dispatch calls made by each thread in the concurrent-dispatch scenario
MaxCalls == 2
\* number of register_script and OnHubCommand calls in one behaviour of the
\* admin commands, the enable_script or disable_script call of a command
\* counting as one more
MaxAdminOps == 3

Threads == 1..NThreads

(***************************************************************************)
(* Values of the program.                                                  *)
(***************************************************************************)
\* return 0 means "block/consume" the event, return 1 means "allow/pass"
Block == 0
Allow == 1
\* the default of register_script's priority parameter
DefaultPriority == 100

\* two of the hook names the module dispatches (OnTimer, OnParsedMsgChat)
HookNames == {"OnTimer", "OnParsedMsgChat"}

\* the hook of generic hub commands, which carries the admin commands
AdminHook == "OnHubCommand"

\* the keys of the tables _hooks, total_calls, failed_calls
TableKeys == HookNames \cup {AdminHook}

\* Python's bool is a subclass of int: True == 1 and False == 0
PyTrue == [type |-> "bool", val |-> 1]
PyFalse == [type |-> "bool", val |-> 0]
PyNone == [type |-> "NoneType", val |-> 0]
PyInt(n) == [type |-> "int", val |-> n]
PyBool(b) == IF b THEN PyTrue ELSE PyFalse
\* a str (non-empty) and a float of value n; a str equals no number
PyStr == [type |-> "str", val |-> 0]
PyFloat(n) == [type |-> "float", val |-> n]
\* an exception leaving an operation, and the absence of any outcome so far
Raised == [type |-> "exception", val |-> 0]
NoReturn == [type |-> "", val |-> 0]

\* isinstance(ret, int): true of int and of its subclass bool
IsInstanceInt(v) == v.type \in {"int", "bool"}

\* Handler functions the scripts register, named by what they do when called.
Handlers == {"h_allow", "h_block", "h_raise", "h_none"}
\* handlers that return other values: the int 2, False, a str, the float 0.0
OtherHandlers == {"h_two", "h_false", "h_str", "h_float0"}
\* Callbacks that call an operation of the registry before they return: a
\* handler, which then returns 1, and a cleanup callback.
CallingHandlers == {"h_calls"}
CallingCleanups == {"c_calls"}
\* the operations such a callback calls
Callees == {"register_script", "unregister_script", "enable_script",
            "disable_script", "get_script_info", "list_scripts", "get_stats",
            "OnTimer", "OnParsedMsgChat"}

\* What a call of handler h does: it raises, or returns a value.
HandlerRaises(h) == h = "h_raise"
HandlerReturn(h) ==
  CASE h = "h_allow" -> PyInt(1)
    [] h = "h_block" -> PyInt(0)
    [] h = "h_none" -> PyNone
    [] h = "h_two" -> PyInt(2)
    [] h = "h_false" -> PyFalse
    [] h = "h_str" -> PyStr
    [] h = "h_float0" -> PyFloat(0)
    [] h = "h_calls" -> PyInt(1)
    [] OTHER -> PyNone

\* Cleanup callbacks: None, one that returns, one that raises.
Cleanups == {"None", "c_ok", "c_raise"}

\* What a call of cleanup callback c does: it raises, or returns.
CleanupRaises(c) == c = "c_raise"

\* the priorities the scripts register with
Priorities == {10, DefaultPriority}

\* a hooks dict with no entry
NoHooks == [h \in {} |-> "h_allow"]

\* the hooks dicts {name: handler, ...} over the hook names
HookDicts == UNION {[D -> Handlers] : D \in SUBSET HookNames}

(***************************************************************************)
(* State.                                                                  *)
(***************************************************************************)
VARIABLES
  scripts,          \* _scripts: script_id -> [name, hooks, cleanup, priority, enabled]
  scripts_lock,     \* _scripts_lock: 0 when free, else the thread holding it
  next_script_id,   \* _next_script_id
  hooks,            \* _hooks: hook_name -> list of <<script_id, priority, handler>>
  hooks_lock,       \* _hooks_lock: 0 when free, else the thread holding it
  stats,            \* _stats
  pc,               \* per thread: the place in the operation it executes
  frame,            \* per thread: the locals of the operation it executes
  ret,              \* per thread: what its last operation returned (or that it raised)
  invoked,          \* per thread: the handlers its current/last dispatch has called, in order
  copied,           \* per thread: the list of bindings its current/last dispatch copied
  calls,            \* script_id -> number of calls of handlers of that script
  cleanup_calls,    \* script_id -> number of calls of that script's cleanup callback
  issued,           \* the register_script calls so far, in order: the id and the cleanup of each
  seen,             \* per thread: the dict its last get_stats call returned
  held,             \* per thread: the value its last get_script_info or list_scripts call returned, as it was then and as it is now
  args,             \* per thread: the arguments its current/last hook entry point received, and those given to each handler it called, in order
  admin,            \* per thread: the OnHubCommand call in progress: where it is, the words of the command, the class of the user
  notices,          \* per thread: the notices its current/last OnHubCommand call sent with vh.pm, in order
  pre,              \* per thread: the registry as a single caller saw it when its current/last operation started
  nops,             \* per thread: number of operations it has started
  stack             \* per thread: the operations suspended in a callback that called the registry, innermost first

regvars == <<scripts, scripts_lock, next_script_id, hooks, hooks_lock, stats>>
histvars == <<invoked, copied, calls, cleanup_calls, issued, seen, held, args, pre, nops>>
admvars == <<admin, notices, stack>>
vars == <<scripts, scripts_lock, next_script_id, hooks, hooks_lock, stats, pc,
          frame, ret, invoked, copied, calls, cleanup_calls, issued, seen, held,
          args, admin, notices, pre, nops, stack>>

ScriptIds == 1..MaxScripts

NoReg == [name |-> "", hooks |-> NoHooks, cleanup |-> "None", priority |-> 0,
          auto_enable |-> FALSE]

NoFrame == [op |-> "none", script_id |-> 0, reg |-> NoReg, hook_name |-> "",
            handlers |-> <<>>, result |-> 0, script_name |-> "", args |-> <<>>,
            cleanup |-> "None", script_ids |-> <<>>, hook_names |-> {}]

\* no get_stats call has returned yet
NoStats == [total_scripts |-> 0, active_scripts |-> 0, disabled_scripts |-> 0,
            total_calls |-> [h \in TableKeys |-> 0],
            failed_calls |-> [h \in TableKeys |-> 0],
            hooks |-> [h \in {} |-> 0]]

\* no get_script_info or list_scripts call has returned a dict yet
NoHeld == [at_call |-> [i \in {} |-> NoReg], now |-> [i \in {} |-> NoReg]]

\* no hook entry point has been called yet
NoArgs == [received |-> <<>>, given |-> <<>>]

\* no OnHubCommand call is in progress
NoAdmin == [at |-> "none", command |-> <<>>, user_class |-> 0]

Snapshot == [scripts |-> scripts, hooks |-> hooks, stats |-> stats,
             next_script_id |-> next_script_id, cleanup_calls |-> cleanup_calls,
             calls |-> calls]

Init ==
  /\ scripts = [i \in {} |-> NoReg]
  /\ scripts_lock = 0
  /\ next_script_id = 1
  /\ hooks = [h \in TableKeys |-> <<>>]
  /\ hooks_lock = 0
  /\ stats = [total_scripts |-> 0, active_scripts |-> 0,
              total_calls |-> [h \in TableKeys |-> 0],
              failed_calls |-> [h \in TableKeys |-> 0],
              disabled_scripts |-> {}]
  /\ pc = [t \in Threads |-> "idle"]
  /\ frame = [t \in Threads |-> NoFrame]
  /\ ret = [t \in Threads |-> NoReturn]
  /\ invoked = [t \in Threads |-> <<>>]
  /\ copied = [t \in Threads |-> <<>>]
  /\ calls = [i \in ScriptIds |-> 0]
  /\ cleanup_calls = [i \in ScriptIds |-> 0]
  /\ issued = <<>>
  /\ seen = [t \in Threads |-> NoStats]
  /\ held = [t \in Threads |-> NoHeld]
  /\ args = [t \in Threads |-> NoArgs]
  /\ admin = [t \in Threads |-> NoAdmin]
  /\ stack = [t \in Threads |-> <<>>]
  /\ notices = [t \in Threads |-> <<>>]
  /\ pre = [t \in Threads |-> Snapshot]
  /\ nops = [t \in Threads |-> 0]

(***************************************************************************)
(* Helpers.                                                                *)
(***************************************************************************)
\* a public operation starts on thread t: the thread is between operations
Starts(t, op) ==
  /\ pc[t] = "idle"
  /\ nops' = [nops EXCEPT ![t] = @ + 1]
  /\ invoked' = [invoked EXCEPT ![t] = <<>>]
  /\ copied' = [copied EXCEPT ![t] = <<>>]

\* the caller on thread t notes the registry as it is when its call starts
Observes(t) == pre' = [pre EXCEPT ![t] = Snapshot]

\* what the caller keeps of a call that has returned: which operation it
\* called, with which id or hook name
Called(fr) ==
  [NoFrame EXCEPT !.op = fr.op, !.script_id = fr.script_id,
     !.hook_name = fr.hook_name]

\* the operation of thread t, its locals being fr, returns v to its caller
Return(t, v, fr) ==
  /\ pc' = [pc EXCEPT ![t] = "idle"]
  /\ ret' = [ret EXCEPT ![t] = v]
  /\ frame' = [frame EXCEPT ![t] = Called(fr)]

Goto(t, label) ==
  /\ pc' = [pc EXCEPT ![t] = label]
  /\ ret' = ret

\* the callback f, called on thread t, calls the registry: it is one of the
\* callbacks that do, and is not itself called from inside such a call (the
\* callbacks guard against re-entry, so that they return)
CallsBack(t, f) ==
  f \in CallingHandlers \cup CallingCleanups /\ stack[t] = <<>>

\* the operations a callback can call: register_script as long as fewer than
\* MaxScripts ids have been assigned
CanCall(callee) == callee = "register_script" => next_script_id <= MaxScripts

\* the callback that thread t has called at pc[t] goes on to call the
\* operation callee: the operation in progress, with its locals and with
\* the calls inv it has made with arguments a, waits for that call
Suspends(t, callee, inv, a) ==
  /\ stack' = [stack EXCEPT ![t] =
                 <<[pc |-> pc[t], frame |-> frame[t], invoked |-> inv,
                    copied |-> copied[t], args |-> a, callee |-> callee]>> \o @]
  /\ pc' = [pc EXCEPT ![t] = "idle"]
  /\ frame' = [frame EXCEPT ![t] = [NoFrame EXCEPT !.op = "callback"]]
  /\ ret' = ret

(***************************************************************************)
(* register_script                                                         *)
(***************************************************************************)
\* the id taken from the size of the store
AllocScriptId_Reuse == Cardinality(DOMAIN scripts) + 1

\* script_id = _next_script_id
AllocScriptId == next_script_id

\* _next_script_id += 1
NextScriptId(n) == n + 1

\* the count taken from the id of the script being registered
CountScript_FromId(t) == frame[t].script_id

\* _stats["total_scripts"] += 1, under _stats_lock
CountScript(t) == stats.total_scripts + 1

\* the new entry put in front of the list, whatever its priority
InsertByPriority_Front(list, x) == <<x>> \o list

\* list.sort(key=lambda x: x[1]): a stable sort by priority, lower first.
\* InsertByPriority puts x behind every entry whose priority is not greater.
RECURSIVE InsertByPriority(_, _)
InsertByPriority(list, x) ==
  IF list = <<>> THEN <<x>>
  ELSE IF list[Len(list)][2] <= x[2] THEN Append(list, x)
  ELSE Append(InsertByPriority(SubSeq(list, 1, Len(list) - 1), x), list[Len(list)])

\* the list left in the order of the appends
SortByPriority_Unsorted(list) == list

RECURSIVE SortByPriority(_)
SortByPriority(list) ==
  IF list = <<>> THEN <<>>
  ELSE InsertByPriority(SortByPriority(SubSeq(list, 1, Len(list) - 1)), list[Len(list)])

\* the entry appended to the list of every hook name
AddHook_EveryList(table, hook_name, entry) ==
  [h \in DOMAIN table |-> SortByPriority(Append(table[h], entry))]

\* _hooks[hook_name].append((script_id, priority, handler));
\* _hooks[hook_name].sort(key=lambda x: x[1])
AddHook(table, hook_name, entry) ==
  [table EXCEPT ![hook_name] = SortByPriority(Append(@, entry))]

\* `with _hooks_lock:` is entered only when no thread holds the lock
HooksLockFree == hooks_lock = 0

\* with _scripts_lock: take the next id and store the script
RegisterScript(t, script_name, hks, cleanup, priority, auto_enable) ==
  /\ Starts(t, "register")
  /\ scripts_lock = 0
  /\ next_script_id <= MaxScripts
  /\ LET script_id == AllocScriptId
         entry == [name |-> script_name, hooks |-> hks, cleanup |-> cleanup,
                   priority |-> priority, enabled |-> auto_enable]
     IN /\ next_script_id' = NextScriptId(next_script_id)
        /\ scripts' = [i \in DOMAIN scripts \cup {script_id} |->
                         IF i = script_id THEN entry ELSE scripts[i]]
        /\ issued' = Append(issued, [script_id |-> script_id, cleanup |-> cleanup])
        /\ frame' = [frame EXCEPT ![t] =
                       [NoFrame EXCEPT !.op = "register", !.script_id = script_id,
                          !.reg = [name |-> script_name, hooks |-> hks,
                                   cleanup |-> cleanup, priority |-> priority,
                                   auto_enable |-> auto_enable]]]
  /\ Goto(t, "r_hooks")
  /\ UNCHANGED <<scripts_lock, hooks, hooks_lock, stats, calls, cleanup_calls, seen, held, args, admvars>>

\* one turn of `for hook_name, handler in hooks.items():`, the entries named
\* in names being left (a dict yields its entries in the order the caller
\* inserted them: any order).  The lock is held from the first turn to the
\* last.
RegisterHookItem(t, names) ==
  IF names = {}
    THEN /\ hooks_lock' = 0
         /\ Goto(t, "r_stats")
         /\ UNCHANGED <<hooks, frame>>
    ELSE \E h \in names :
           /\ hooks' = AddHook(hooks, h, <<frame[t].script_id, frame[t].reg.priority,
                                           frame[t].reg.hooks[h]>>)
           /\ frame' = [frame EXCEPT ![t].hook_names = names \ {h}]
           /\ IF names = {h}
                THEN hooks_lock' = 0 /\ Goto(t, "r_stats")
                ELSE hooks_lock' = t /\ Goto(t, "r_hook")

\* with _hooks_lock: the first entry of the hooks dict is bound
RegisterHooks(t) ==
  /\ pc[t] = "r_hooks"
  /\ HooksLockFree
  /\ RegisterHookItem(t, DOMAIN frame[t].reg.hooks)
  /\ UNCHANGED <<scripts, scripts_lock, next_script_id, stats, histvars, admvars>>

\* still inside `with _hooks_lock:`: the next entry is bound
RegisterHook(t) ==
  /\ pc[t] = "r_hook"
  /\ RegisterHookItem(t, frame[t].hook_names)
  /\ UNCHANGED <<scripts, scripts_lock, next_script_id, stats, histvars, admvars>>

\* with _stats_lock: count the script; return script_id
RegisterStats(t) ==
  /\ pc[t] = "r_stats"
  /\ stats' = [stats EXCEPT !.total_scripts = CountScript(t),
                 !.active_scripts = IF frame[t].reg.auto_enable THEN @ + 1 ELSE @]
  /\ Return(t, PyInt(frame[t].script_id), frame[t])
  /\ UNCHANGED <<scripts, scripts_lock, next_script_id, hooks_lock, hooks, histvars, admvars>>

(***************************************************************************)
(* unregister_script                                                       *)
(***************************************************************************)
\* the block entered without taking the lock
ScriptsLockFree_Ignored == TRUE

\* `with _scripts_lock:` is entered only when no thread holds the lock
ScriptsLockFree == scripts_lock = 0

\* del _scripts[script_id]
DelScript(table, script_id) ==
  [i \in DOMAIN table \ {script_id} |-> table[i]]

\* _hooks[hook_name] = [(sid, pri, handler) for ... if sid != script_id];
\* a list left empty is deleted, which the table shows as <<>>
RemoveHook(table, hook_name, script_id) ==
  [table EXCEPT ![hook_name] = SelectSeq(@, LAMBDA e : e[1] # script_id)]

\* the list of OnTimer alone is filtered
HooksBinding_OnTimerOnly(table, script_id) ==
  {h \in {"OnTimer"} : \E k \in 1..Len(table[h]) : table[h][k][1] = script_id}

\* `for hook_name in list(_hooks.keys()):` filters the list of every hook
\* name; the lists it changes are those holding a binding of script_id
HooksBinding(table, script_id) ==
  {h \in TableKeys : \E k \in 1..Len(table[h]) : table[h][k][1] = script_id}

\* unregister_script returns v: to its caller, or into the loop of UnLoad
UnregisterReturn(t, v) ==
  IF frame[t].op = "UnLoad"
    THEN Goto(t, "ul_loop") /\ UNCHANGED frame
    ELSE Return(t, v, frame[t])

\* with _scripts_lock: look the script up; without a cleanup callback delete
\* it at once, with one keep the lock while the callback runs.  fr holds the
\* caller's locals.
UnregisterLookup(t, script_id, fr) ==
  /\ ScriptsLockFree
  /\ IF script_id \notin DOMAIN scripts
       THEN /\ IF fr.op = "UnLoad"
                 THEN /\ Goto(t, "ul_loop")
                      /\ frame' = [frame EXCEPT ![t] = [fr EXCEPT !.script_id = script_id]]
                 ELSE Return(t, PyFalse, [fr EXCEPT !.script_id = script_id])
            /\ UNCHANGED <<scripts, scripts_lock>>
       ELSE /\ frame' = [frame EXCEPT ![t] =
                           [fr EXCEPT !.script_id = script_id,
                              !.script_name = scripts[script_id].name,
                              !.cleanup = scripts[script_id].cleanup]]
            /\ IF scripts[script_id].cleanup = "None"
                 THEN /\ scripts' = DelScript(scripts, script_id)
                      /\ UNCHANGED scripts_lock
                      /\ Goto(t, "u_hooks")
                 ELSE /\ scripts_lock' = t
                      /\ UNCHANGED scripts
                      /\ Goto(t, "u_cleanup")
  /\ UNCHANGED <<next_script_id, hooks_lock, hooks, stats, calls, cleanup_calls, issued, seen, held, args, admvars>>

UnregisterScript(t, script_id) ==
  /\ Starts(t, "unregister")
  /\ UnregisterLookup(t, script_id, [NoFrame EXCEPT !.op = "unregister"])

\* cleanup() called without the try: what it raises leaves the `with` block,
\* which releases the lock, and the operation
UnregisterCleanup_Propagates(t) ==
  /\ pc[t] = "u_cleanup"
  /\ cleanup_calls' = [cleanup_calls EXCEPT ![frame[t].script_id] = @ + 1]
  /\ scripts_lock' = 0
  /\ IF CleanupRaises(frame[t].cleanup)
       THEN /\ Return(t, Raised, frame[t])
            /\ UNCHANGED scripts
       ELSE /\ scripts' = DelScript(scripts, frame[t].script_id)
            /\ Goto(t, "u_hooks")
            /\ UNCHANGED frame
  /\ UNCHANGED <<next_script_id, hooks_lock, hooks, stats, invoked, copied, calls, issued, seen, held, pre, nops, args, admvars>>

\* the lock acquired and released by hand, the release left out behind the
\* cleanup call
UnregisterCleanup_KeepsLock(t) ==
  /\ pc[t] = "u_cleanup"
  /\ cleanup_calls' = [cleanup_calls EXCEPT ![frame[t].script_id] = @ + 1]
  /\ scripts' = DelScript(scripts, frame[t].script_id)
  /\ Goto(t, "u_hooks")
  /\ UNCHANGED <<scripts_lock, next_script_id, hooks_lock, hooks, stats, frame,
                 invoked, copied, calls, issued, seen, held, pre, nops, args, admvars>>

\* still inside `with _scripts_lock:`: try: cleanup(); what it raises is
\* caught and printed by the except clause; either way the script is then
\* deleted and the lock released
UnregisterCleanup(t) ==
  /\ pc[t] = "u_cleanup"
  /\ ~CallsBack(t, frame[t].cleanup)
  /\ cleanup_calls' = [cleanup_calls EXCEPT ![frame[t].script_id] = @ + 1]
  /\ scripts' = DelScript(scripts, frame[t].script_id)
  /\ scripts_lock' = 0
  /\ Goto(t, "u_hooks")
  /\ UNCHANGED <<next_script_id, hooks_lock, hooks, stats, frame, invoked, copied, calls, issued, seen, held, pre, nops, args, admvars>>

\* one turn of `for hook_name in list(_hooks.keys()):` that changes a list,
\* the hook names in names being left.  The lock is held from the first turn
\* to the last.
UnregisterHookItem(t, names) ==
  IF names = {}
    THEN /\ hooks_lock' = 0
         /\ Goto(t, "u_stats")
         /\ UNCHANGED <<hooks, frame>>
    ELSE \E h \in names :
           /\ hooks' = RemoveHook(hooks, h, frame[t].script_id)
           /\ frame' = [frame EXCEPT ![t].hook_names = names \ {h}]
           /\ IF names = {h}
                THEN hooks_lock' = 0 /\ Goto(t, "u_stats")
                ELSE hooks_lock' = t /\ Goto(t, "u_hook")

\* with _hooks_lock: remove all hooks of the script, first list
UnregisterHooks(t) ==
  /\ pc[t] = "u_hooks"
  /\ HooksLockFree
  /\ UnregisterHookItem(t, HooksBinding(hooks, frame[t].script_id))
  /\ UNCHANGED <<scripts, scripts_lock, next_script_id, stats, histvars, admvars>>

\* still inside `with _hooks_lock:`: the next list
UnregisterHook(t) ==
  /\ pc[t] = "u_hook"
  /\ UnregisterHookItem(t, frame[t].hook_names)
  /\ UNCHANGED <<scripts, scripts_lock, next_script_id, stats, histvars, admvars>>

\* with _stats_lock: active_scripts -= 1, disabled_scripts.discard(script_id);
\* return True
UnregisterStats(t) ==
  /\ pc[t] = "u_stats"
  /\ stats' = [stats EXCEPT !.active_scripts = @ - 1,
                 !.disabled_scripts = @ \ {frame[t].script_id}]
  /\ UnregisterReturn(t, PyTrue)
  /\ UNCHANGED <<scripts, scripts_lock, next_script_id, hooks_lock, hooks, histvars, admvars>>

(***************************************************************************)
(* enable_script, disable_script                                           *)
(***************************************************************************)
\* _scripts[script_id]["enabled"] = flag assigns to the dict object that the
\* store table holds under script_id: a dict d that a caller was given shows
\* the new flag when it holds that same object under script_id
Assigned(d, script_id, table, flag) ==
  [i \in DOMAIN d |->
     IF i = script_id /\ script_id \in DOMAIN table
       THEN [d[i] EXCEPT !.enabled = flag] ELSE d[i]]

\* the flag of every script in the store is set
SetFlag_Every(table, script_id, flag) ==
  [i \in DOMAIN table |-> [table[i] EXCEPT !.enabled = flag]]

\* _scripts[script_id]["enabled"] = flag
SetFlag(table, script_id, flag) ==
  [table EXCEPT ![script_id].enabled = flag]

\* the id not looked up in the store: the statistics are updated and True is
\* returned for every id
SetEnabled_Unchecked(t, script_id, op, flag, label) ==
  /\ Starts(t, op)
  /\ ScriptsLockFree
  /\ scripts' = [i \in DOMAIN scripts |->
                   IF i = script_id THEN [scripts[i] EXCEPT !.enabled = flag]
                   ELSE scripts[i]]
  /\ frame' = [frame EXCEPT ![t] = [NoFrame EXCEPT !.op = op, !.script_id = script_id]]
  /\ Goto(t, label)
  /\ held' = [u \in Threads |->
                [held[u] EXCEPT !.now = Assigned(@, script_id, scripts, flag)]]
  /\ UNCHANGED <<scripts_lock, next_script_id, hooks_lock, hooks, stats, calls,
                 cleanup_calls, issued, seen, args>>

\* with _scripts_lock: return False for an unknown id, else set the flag
SetEnabled(t, script_id, op, flag, label) ==
  /\ Starts(t, op)
  /\ ScriptsLockFree
  /\ LET fr == [NoFrame EXCEPT !.op = op, !.script_id = script_id]
     IN IF script_id \notin DOMAIN scripts
          THEN /\ Return(t, PyFalse, fr)
               /\ UNCHANGED scripts
          ELSE /\ scripts' = SetFlag(scripts, script_id, flag)
               /\ frame' = [frame EXCEPT ![t] = fr]
               /\ Goto(t, label)
  /\ held' = [u \in Threads |->
                [held[u] EXCEPT !.now = Assigned(@, script_id, scripts, flag)]]
  /\ UNCHANGED <<scripts_lock, next_script_id, hooks_lock, hooks, stats, calls,
                 cleanup_calls, issued, seen, args>>

\* the host, or a script, calls enable_script(script_id)
EnableScript(t, script_id) ==
  /\ SetEnabled(t, script_id, "enable", TRUE, "e_stats")
  /\ UNCHANGED admvars

\* with _stats_lock: disabled_scripts.discard(script_id), active_scripts += 1
EnableStats(t) ==
  /\ pc[t] = "e_stats"
  /\ stats' = [stats EXCEPT !.disabled_scripts = @ \ {frame[t].script_id},
                 !.active_scripts = @ + 1]
  /\ Return(t, PyTrue, frame[t])
  /\ UNCHANGED <<scripts, scripts_lock, next_script_id, hooks_lock, hooks, histvars, admvars>>

\* the host, or a script, calls disable_script(script_id)
DisableScript(t, script_id) ==
  /\ SetEnabled(t, script_id, "disable", FALSE, "x_stats")
  /\ UNCHANGED admvars

\* with _stats_lock: disabled_scripts.add(script_id), active_scripts -= 1
DisableStats(t) ==
  /\ pc[t] = "x_stats"
  /\ stats' = [stats EXCEPT !.disabled_scripts = @ \cup {frame[t].script_id},
                 !.active_scripts = @ - 1]
  /\ Return(t, PyTrue, frame[t])
  /\ UNCHANGED <<scripts, scripts_lock, next_script_id, hooks_lock, hooks, histvars, admvars>>

(***************************************************************************)
(* get_script_info, list_scripts, get_stats                                *)
(***************************************************************************)
\* the dict get_stats builds from the statistics st and the hook table table:
\* the counters, len(disabled_scripts), and under "hooks" the length of the
\* list of every hook name the table has (a list left empty was deleted)
StatsDict(st, table) ==
  [total_scripts |-> st.total_scripts,
   active_scripts |-> st.active_scripts,
   disabled_scripts |-> Cardinality(st.disabled_scripts),
   total_calls |-> st.total_calls,
   failed_calls |-> st.failed_calls,
   hooks |-> [h \in {k \in TableKeys : table[k] # <<>>} |-> Len(table[h])]]

\* a dict returned to the caller
PyDict == [type |-> "dict", val |-> 0]

\* what a caller holds of the store table when it was given the dict
\* objects stored under the ids of keys
Given(table, keys) ==
  LET d == [i \in keys \cap DOMAIN table |-> table[i]]
  IN [at_call |-> d, now |-> d]

\* with _scripts_lock: return _scripts.get(script_id): the dict object that
\* the store holds, or None
GetScriptInfo(t, script_id) ==
  /\ Starts(t, "get_script_info")
  /\ ScriptsLockFree
  /\ held' = [held EXCEPT ![t] = Given(scripts, {script_id})]
  /\ Return(t, IF script_id \in DOMAIN scripts THEN PyDict ELSE PyNone,
            [NoFrame EXCEPT !.op = "get_script_info", !.script_id = script_id])
  /\ UNCHANGED <<regvars, calls, cleanup_calls, issued, seen, args, admvars>>

\* with _scripts_lock: return dict(_scripts): a new dict that holds, under
\* the ids stored now, the dict objects that the store holds
ListScripts(t) ==
  /\ Starts(t, "list_scripts")
  /\ ScriptsLockFree
  /\ held' = [held EXCEPT ![t] = Given(scripts, DOMAIN scripts)]
  /\ Return(t, PyDict, [NoFrame EXCEPT !.op = "list_scripts"])
  /\ UNCHANGED <<regvars, calls, cleanup_calls, issued, seen, args, admvars>>

\* with _stats_lock: return the statistics dict.  _hooks is read without
\* _hooks_lock: the table is seen as it is, also between two turns of a loop
\* of a thread that holds _hooks_lock
GetStats(t) ==
  /\ Starts(t, "get_stats")
  /\ seen' = [seen EXCEPT ![t] = StatsDict(stats, hooks)]
  /\ Return(t, PyDict, [NoFrame EXCEPT !.op = "get_stats"])
  /\ UNCHANGED <<regvars, calls, cleanup_calls, issued, held, args, admvars>>

(***************************************************************************)
(* _dispatch_hook, reached through OnTimer, OnParsedMsgChat, ...           *)
(***************************************************************************)
\* the call counted only behind the `if not handlers: return 1`
CountCall_IfBound(t) ==
  IF hooks[frame[t].hook_name] = <<>> THEN stats.total_calls
  ELSE [stats.total_calls EXCEPT ![frame[t].hook_name] = @ + 1]

\* the count assigned instead of incremented
CountCall_Assign(t) ==
  [stats.total_calls EXCEPT ![frame[t].hook_name] = 1]

\* _stats["total_calls"][hook_name] += 1
CountCall(t) ==
  [stats.total_calls EXCEPT ![frame[t].hook_name] = @ + 1]

\* no return value ends the loop
IsBlockReturn_Never(v) == FALSE

\* isinstance(ret, int) and ret == 0
IsBlockReturn(v) == IsInstanceInt(v) /\ v.val = Block

\* the host calls the hook function, which calls _dispatch_hook(hook_name, ...)
DispatchHook(t, hook_name, a) ==
  /\ Starts(t, "dispatch")
  /\ frame' = [frame EXCEPT ![t] =
                 [NoFrame EXCEPT !.op = "dispatch", !.hook_name = hook_name,
                    !.args = a]]
  /\ Goto(t, "h_count")
  /\ UNCHANGED <<regvars, calls, cleanup_calls, issued, seen, held>>

\* with _stats_lock: count the call
DispatchCount(t) ==
  /\ pc[t] = "h_count"
  /\ stats' = [stats EXCEPT !.total_calls = CountCall(t)]
  /\ Goto(t, "h_snapshot")
  /\ UNCHANGED <<scripts, scripts_lock, next_script_id, hooks_lock, hooks, frame, histvars, admvars>>

\* with _hooks_lock: handlers = list(_hooks.get(hook_name, []));
\* if not handlers: return 1; result = 1
DispatchSnapshot(t) ==
  /\ pc[t] = "h_snapshot"
  /\ HooksLockFree
  /\ LET handlers == hooks[frame[t].hook_name]
     IN /\ copied' = [copied EXCEPT ![t] = handlers]
        /\ IF handlers = <<>>
             THEN Return(t, PyInt(Allow), frame[t])
             ELSE /\ frame' = [frame EXCEPT ![t].handlers = handlers, ![t].result = Allow]
                  /\ Goto(t, "h_check")
  /\ UNCHANGED <<regvars, invoked, calls, cleanup_calls, issued, seen, held, pre, nops, args, admvars>>

\* the loop walks the list of the hook table itself, not a copy: it goes on
\* with what now follows the current entry there
DispatchContinue_Live(t, fr) ==
  LET live == hooks[fr.hook_name]
      pos == {k \in 1..Len(live) : live[k] = fr.handlers[1]}
      rest == IF pos = {} THEN <<>>
              ELSE SubSeq(live, (CHOOSE k \in pos : TRUE) + 1, Len(live))
  IN IF rest = <<>>
       THEN Return(t, PyInt(fr.result), fr)
       ELSE /\ frame' = [frame EXCEPT ![t] = [fr EXCEPT !.handlers = rest]]
            /\ Goto(t, "h_check")

\* the for loop goes on with the next handler, or ends: return result
DispatchContinue(t, fr) ==
  IF Tail(fr.handlers) = <<>>
    THEN Return(t, PyInt(fr.result), fr)
    ELSE /\ frame' = [frame EXCEPT ![t] = [fr EXCEPT !.handlers = Tail(@)]]
         /\ Goto(t, "h_check")

\* the check looks for the script in the store only, not at its flag
DispatchCheck_IgnoresEnabled(t) ==
  /\ pc[t] = "h_check"
  /\ ScriptsLockFree
  /\ LET script_id == frame[t].handlers[1][1]
     IN IF script_id \notin DOMAIN scripts
          THEN DispatchContinue(t, frame[t])
          ELSE /\ frame' = [frame EXCEPT ![t].script_name = scripts[script_id].name]
               /\ Goto(t, "h_call")
  /\ UNCHANGED <<regvars, histvars, admvars>>

\* a skipped handler counted as a failed call
DispatchCheck_SkipCounts(t) ==
  /\ pc[t] = "h_check"
  /\ ScriptsLockFree
  /\ LET script_id == frame[t].handlers[1][1]
     IN IF script_id \notin DOMAIN scripts \/ ~scripts[script_id].enabled
          THEN /\ DispatchContinue(t, frame[t])
               /\ stats' = [stats EXCEPT !.failed_calls[frame[t].hook_name] = @ + 1]
          ELSE /\ frame' = [frame EXCEPT ![t].script_name = scripts[script_id].name]
               /\ Goto(t, "h_call")
               /\ UNCHANGED stats
  /\ UNCHANGED <<scripts, scripts_lock, next_script_id, hooks_lock, hooks, histvars, admvars>>

\* with _scripts_lock: skip the handler of a script that is gone or disabled
DispatchCheck(t) ==
  /\ pc[t] = "h_check"
  /\ ScriptsLockFree
  /\ LET script_id == frame[t].handlers[1][1]
     IN IF script_id \notin DOMAIN scripts \/ ~scripts[script_id].enabled
          THEN DispatchContinue(t, frame[t])
          ELSE /\ frame' = [frame EXCEPT ![t].script_name = scripts[script_id].name]
               /\ Goto(t, "h_call")
  /\ UNCHANGED <<regvars, histvars, admvars>>

\* ret = handler(*args, **kwargs), no lock held: a return of int 0 ends the
\* loop with result 0, an exception leads to the except clause
DispatchCall(t) ==
  /\ pc[t] = "h_call"
  /\ ~CallsBack(t, frame[t].handlers[1][3])
  /\ LET script_id == frame[t].handlers[1][1]
         handler == frame[t].handlers[1][3]
     IN /\ invoked' = [invoked EXCEPT ![t] = Append(@, <<script_id, handler>>)]
        /\ args' = [args EXCEPT ![t].given = Append(@, frame[t].args)]
        /\ calls' = [calls EXCEPT ![script_id] = @ + 1]
        /\ IF HandlerRaises(handler)
             THEN /\ Goto(t, "h_except")
                  /\ UNCHANGED frame
             ELSE IF IsBlockReturn(HandlerReturn(handler))
               THEN Return(t, PyInt(Block), [frame[t] EXCEPT !.result = Block])
               ELSE DispatchContinue(t, frame[t])
  /\ UNCHANGED <<regvars, copied, cleanup_calls, issued, seen, held, pre, nops, admvars>>

\* the exception counted and passed on to the caller of the dispatch
DispatchExcept_Abort(t) ==
  /\ pc[t] = "h_except"
  /\ stats' = [stats EXCEPT !.failed_calls[frame[t].hook_name] = @ + 1]
  /\ Return(t, Raised, frame[t])
  /\ UNCHANGED <<scripts, scripts_lock, next_script_id, hooks_lock, hooks, histvars, admvars>>

\* the exception counted and turned into the result 0
DispatchExcept_Blocks(t) ==
  /\ pc[t] = "h_except"
  /\ stats' = [stats EXCEPT !.failed_calls[frame[t].hook_name] = @ + 1]
  /\ DispatchContinue(t, [frame[t] EXCEPT !.result = Block])
  /\ UNCHANGED <<scripts, scripts_lock, next_script_id, hooks_lock, hooks, histvars, admvars>>

\* the exception caught and not counted
DispatchExcept_Uncounted(t) ==
  /\ pc[t] = "h_except"
  /\ DispatchContinue(t, frame[t])
  /\ UNCHANGED <<regvars, histvars, admvars>>

\* the exception counted and the script of the raising handler switched off
DispatchExcept_Disables(t) ==
  /\ pc[t] = "h_except"
  /\ stats' = [stats EXCEPT !.failed_calls[frame[t].hook_name] = @ + 1]
  /\ scripts' = [scripts EXCEPT ![frame[t].handlers[1][1]].enabled = FALSE]
  /\ DispatchContinue(t, frame[t])
  /\ UNCHANGED <<scripts_lock, next_script_id, hooks_lock, hooks, histvars, admvars>>

\* except Exception: with _stats_lock: failed_calls[hook_name] += 1; continue
DispatchExcept(t) ==
  /\ pc[t] = "h_except"
  /\ stats' = [stats EXCEPT !.failed_calls[frame[t].hook_name] = @ + 1]
  /\ DispatchContinue(t, frame[t])
  /\ UNCHANGED <<scripts, scripts_lock, next_script_id, hooks_lock, hooks, histvars, admvars>>

(***************************************************************************)
(* the hook entry points OnTimer, OnParsedMsgChat, ...                     *)
(***************************************************************************)
\* the values the host passes as arguments: any Python objects, which are
\* handed on as they are
ArgValues == {"a", "b"}

\* the host calls a hook entry point with the arguments a
Receives(t, a) ==
  /\ args' = [args EXCEPT ![t] = [received |-> a, given |-> <<>>]]
  /\ UNCHANGED admvars

\* def OnTimer(msec=0): return _dispatch_hook("OnTimer", msec)
OnTimer(t, msec) ==
  /\ Receives(t, <<msec>>)
  /\ DispatchHook(t, "OnTimer", <<msec>>)

\* the two arguments passed on in the opposite order
OnParsedMsgChat_Swapped(t, nick, message) ==
  /\ Receives(t, <<nick, message>>)
  /\ DispatchHook(t, "OnParsedMsgChat", <<message, nick>>)

\* def OnParsedMsgChat(nick, message):
\*     return _dispatch_hook("OnParsedMsgChat", nick, message)
OnParsedMsgChat(t, nick, message) ==
  /\ Receives(t, <<nick, message>>)
  /\ DispatchHook(t, "OnParsedMsgChat", <<nick, message>>)

\* the host raises the event of hook h
HostEvent(t, h) ==
  IF h = "OnTimer" THEN OnTimer(t, "a") ELSE OnParsedMsgChat(t, "a", "b")

(***************************************************************************)
(* OnHubCommand: the admin commands                                        *)
(***************************************************************************)
\* A command is the sequence of its words and of the blanks between them.
\* command.split(): the words, without the blanks
Split(command) == SelectSeq(command, LAMBDA w : w # " ")

\* str.lower() of the words that are not in lower case already
Lower(w) ==
  CASE w = "ENABLE" -> "enable"
    [] w = "List" -> "list"
    [] OTHER -> w

\* int(w) returns for a word of decimal digits, raises ValueError for "abc"
ParsesAsInt(w) == \E n \in 0..9 : ToString(n) = w
IntOf(w) == CHOOSE n \in 0..9 : ToString(n) = w

\* every user class passes
IsMaster_Any(user_class) == TRUE

\* `if user_class < 10:` refuses; 10 is the master class
IsMaster(user_class) == ~(user_class < 10)

\* what a vh.pm call does: it sends the notice, or raises a ValueError, or
\* raises another exception (also when vh has no pm)
VhOutcomes == {"ok", "ValueError", "Exception"}

\* vh.pm(text, nick) with the outcome out; the lines of one listing, of the
\* statistics and of the help are one notice
Pm(t, notice, out) ==
  notices' = [notices EXCEPT ![t] = IF out = "ok" THEN Append(@, notice) ELSE @]

\* def OnHubCommand(nick, command, user_class, in_pm, prefix):
\*     result = _dispatch_hook("OnHubCommand", nick, command, user_class, in_pm, prefix)
OnHubCommand(t, nick, command, user_class, in_pm, prefix) ==
  /\ admin[t].at = "none"
  /\ args' = [args EXCEPT ![t] =
                [received |-> <<nick, command, user_class, in_pm, prefix>>,
                 given |-> <<>>]]
  /\ DispatchHook(t, AdminHook, <<nick, command, user_class, in_pm, prefix>>)
  /\ admin' = [admin EXCEPT ![t] =
                 [at |-> "chain", command |-> command, user_class |-> user_class]]
  /\ notices' = [notices EXCEPT ![t] = <<>>]
  /\ UNCHANGED stack

\* OnHubCommand returns v, or raises
AdminReturn(t, v) ==
  /\ ret' = [ret EXCEPT ![t] = v]
  /\ frame' = [frame EXCEPT ![t] = [NoFrame EXCEPT !.op = "OnHubCommand"]]
  /\ admin' = [admin EXCEPT ![t].at = "none"]
  /\ UNCHANGED <<regvars, pc, histvars, stack>>

\* _dispatch_hook has returned to OnHubCommand
Interprets(t) == admin[t].at = "chain" /\ pc[t] = "idle"

\* if result == 0: return 0
AdminBlocked(t) ==
  /\ Interprets(t)
  /\ ret[t] = PyInt(Block)
  /\ AdminReturn(t, PyInt(0))
  /\ UNCHANGED notices

\* the command looked at whatever the chain returned
IsOurs_EvenBlocked(t) ==
  /\ Interprets(t)
  /\ Split(admin[t].command) # <<>>
  /\ Split(admin[t].command)[1] = "dispatcher"

\* parts = command.split(); parts[0] == "dispatcher"
IsOurs(t) ==
  /\ Interprets(t)
  /\ ret[t] # PyInt(Block)
  /\ Split(admin[t].command) # <<>>
  /\ Split(admin[t].command)[1] = "dispatcher"

\* if not parts or parts[0] != "dispatcher": return 1
AdminNotOurs(t) ==
  /\ Interprets(t)
  /\ ret[t] # PyInt(Block)
  /\ IF Split(admin[t].command) = <<>> THEN TRUE
     ELSE Split(admin[t].command)[1] # "dispatcher"
  /\ AdminReturn(t, PyInt(1))
  /\ UNCHANGED notices

\* if user_class < 10: try: vh.pm("Permission denied. ...") except: pass;
\* return 0
AdminDenied(t) ==
  /\ IsOurs(t)
  /\ ~IsMaster(admin[t].user_class)
  /\ \E out \in VhOutcomes : Pm(t, "denied", out)
  /\ AdminReturn(t, PyInt(0))

\* if len(parts) < 2: try: vh.pm("Usage: ...") except: pass; return 0
AdminUsage(t) ==
  /\ IsOurs(t)
  /\ IsMaster(admin[t].user_class)
  /\ Len(Split(admin[t].command)) < 2
  /\ \E out \in VhOutcomes : Pm(t, "usage", out)
  /\ AdminReturn(t, PyInt(0))

\* subcmd = parts[1].lower()
Subcommand(t, subcmd) ==
  /\ IsOurs(t)
  /\ IsMaster(admin[t].user_class)
  /\ Len(Split(admin[t].command)) >= 2
  /\ Lower(Split(admin[t].command)[2]) = subcmd

\* "list": scripts = list_scripts(); try: vh.pm(...) ... except: pass
AdminList(t) ==
  /\ Subcommand(t, "list")
  /\ ScriptsLockFree
  /\ \E out \in VhOutcomes : Pm(t, "list", out)
  /\ AdminReturn(t, PyInt(0))

\* "stats": stats = get_stats(); try: vh.pm(...) ... except: pass
AdminStats(t) ==
  /\ Subcommand(t, "stats")
  /\ \E out \in VhOutcomes : Pm(t, "stats", out)
  /\ AdminReturn(t, PyInt(0))

\* "help": try: vh.pm(...) ... except: pass
AdminHelp(t) ==
  /\ Subcommand(t, "help")
  /\ \E out \in VhOutcomes : Pm(t, "help", out)
  /\ AdminReturn(t, PyInt(0))

\* `elif subcmd == "enable" and len(parts) > 2:`, and the same for "disable"
IsToggle(t, subcmd) ==
  /\ subcmd \in {"enable", "disable"}
  /\ Subcommand(t, subcmd)
  /\ Len(Split(admin[t].command)) > 2

\* else: try: vh.pm(f"Unknown subcommand: {subcmd}") except: pass
AdminUnknown(t) ==
  /\ IsOurs(t)
  /\ IsMaster(admin[t].user_class)
  /\ Len(Split(admin[t].command)) >= 2
  /\ LET subcmd == Lower(Split(admin[t].command)[2])
     IN /\ subcmd \notin {"list", "stats", "help"}
        /\ ~IsToggle(t, subcmd)
  /\ \E out \in VhOutcomes : Pm(t, "unknown", out)
  /\ AdminReturn(t, PyInt(0))

\* try: script_id = int(parts[2]) raises ValueError;
\* except ValueError: vh.pm("Invalid script ID", nick), outside of any try:
\* what vh.pm raises here leaves OnHubCommand
AdminBadId(t) ==
  /\ \E subcmd \in {"enable", "disable"} : IsToggle(t, subcmd)
  /\ ~ParsesAsInt(Split(admin[t].command)[3])
  /\ \E out \in VhOutcomes :
       /\ Pm(t, "invalid_id", out)
       /\ AdminReturn(t, IF out = "ok" THEN PyInt(0) ELSE Raised)

\* try: script_id = int(parts[2]); enable_script(script_id), or
\* disable_script(script_id), is called and takes its first step
AdminToggle(t) ==
  /\ \E subcmd \in {"enable", "disable"} :
       /\ IsToggle(t, subcmd)
       /\ ParsesAsInt(Split(admin[t].command)[3])
       /\ IF subcmd = "enable"
            THEN SetEnabled(t, IntOf(Split(admin[t].command)[3]), "enable", TRUE, "e_stats")
            ELSE SetEnabled(t, IntOf(Split(admin[t].command)[3]), "disable", FALSE, "x_stats")
  /\ admin' = [admin EXCEPT ![t].at = "toggle"]
  /\ UNCHANGED <<notices, pre, stack>>

\* enable_script or disable_script has returned: inside the try,
\* vh.pm("... enabled") or vh.pm("... not found"); a ValueError it raises is
\* handled by `except ValueError: vh.pm("Invalid script ID", nick)`, another
\* exception by `except: pass`; return 0
AdminToggled(t) ==
  /\ admin[t].at = "toggle"
  /\ pc[t] = "idle"
  /\ \E out, out2 \in VhOutcomes :
       LET notice == IF ret[t] # PyTrue THEN "not_found"
                     ELSE IF frame[t].op = "enable" THEN "enabled" ELSE "disabled"
       IN IF out = "ValueError"
            THEN /\ Pm(t, "invalid_id", out2)
                 /\ AdminReturn(t, IF out2 = "ok" THEN PyInt(0) ELSE Raised)
            ELSE /\ Pm(t, notice, out)
                 /\ AdminReturn(t, PyInt(0))

(***************************************************************************)
(* UnLoad                                                                  *)
(***************************************************************************)
\* the keys of a dict come in insertion order, which for _scripts is the
\* order of the ids
RECURSIVE KeysInOrder(_)
KeysInOrder(S) ==
  IF S = {} THEN <<>>
  ELSE LET m == CHOOSE x \in S : \A y \in S : x <= y
       IN <<m>> \o KeysInOrder(S \ {m})

\* the ids of the enabled scripts only are listed
UnLoad_EnabledOnly(t) ==
  /\ Starts(t, "UnLoad")
  /\ ScriptsLockFree
  /\ frame' = [frame EXCEPT ![t] =
                 [NoFrame EXCEPT !.op = "UnLoad",
                    !.script_ids = KeysInOrder({i \in DOMAIN scripts : scripts[i].enabled})]]
  /\ Goto(t, "ul_loop")
  /\ UNCHANGED <<regvars, calls, cleanup_calls, issued, seen, held, args, admvars>>

\* with _scripts_lock: script_ids = list(_scripts.keys())
UnLoad(t) ==
  /\ Starts(t, "UnLoad")
  /\ ScriptsLockFree
  /\ frame' = [frame EXCEPT ![t] =
                 [NoFrame EXCEPT !.op = "UnLoad",
                    !.script_ids = KeysInOrder(DOMAIN scripts)]]
  /\ Goto(t, "ul_loop")
  /\ UNCHANGED <<regvars, calls, cleanup_calls, issued, seen, held, args, admvars>>

\* for script_id in script_ids: unregister_script(script_id)
UnLoadUnregister(t) ==
  /\ pc[t] = "ul_loop"
  /\ frame[t].script_ids # <<>>
  /\ UnregisterLookup(t, Head(frame[t].script_ids),
                      [frame[t] EXCEPT !.script_ids = Tail(@)])
  /\ UNCHANGED <<invoked, copied, pre, nops>>

\* the loop is over: UnLoad returns (None)
UnLoadReturn(t) ==
  /\ pc[t] = "ul_loop"
  /\ frame[t].script_ids = <<>>
  /\ Return(t, PyNone, frame[t])
  /\ UNCHANGED <<regvars, histvars, admvars>>

(***************************************************************************)
(* Specifications.                                                         *)
(***************************************************************************)
\* the names the scripts register under (names need not be unique)
ScriptNames == {"S1"}

RECURSIVE SumOver(_, _)
SumOver(f, S) ==
  IF S = {} THEN 0
  ELSE LET x == CHOOSE y \in S : TRUE IN f[x] + SumOver(f, S \ {x})

\* operations started so far, by all threads
Started == SumOver(nops, Threads)

\* the ids the callers pass: those assigned so far and one never assigned
IdInputs == 1..next_script_id

\* the steps that continue an operation in progress on thread t
RegisterSteps(t) == RegisterHooks(t) \/ RegisterStats(t)
UnregisterSteps(t) == UnregisterCleanup(t) \/ UnregisterHooks(t) \/ UnregisterStats(t)
\* the further turns of the loops over the hook names, which run for scripts
\* that bind more than one hook
HookLoopSteps(t) == RegisterHook(t) \/ UnregisterHook(t)
ToggleSteps(t) == EnableStats(t) \/ DisableStats(t)
DispatchSteps(t) ==
  \/ DispatchCount(t)
  \/ DispatchSnapshot(t)
  \/ DispatchCheck(t)
  \/ DispatchCall(t)
  \/ DispatchExcept(t)
UnLoadSteps(t) == UnLoadUnregister(t) \/ UnLoadReturn(t)

(***************************************************************************)
(* Callbacks that call the registry.                                       *)
(***************************************************************************)
\* cleanup(), still inside `with _scripts_lock:`, where the cleanup callback
\* calls an operation of the registry
UnregisterCleanupCalls(t) ==
  /\ pc[t] = "u_cleanup"
  /\ CallsBack(t, frame[t].cleanup)
  /\ cleanup_calls' = [cleanup_calls EXCEPT ![frame[t].script_id] = @ + 1]
  /\ \E callee \in Callees :
       CanCall(callee) /\ Suspends(t, callee, invoked[t], args[t])
  /\ UNCHANGED <<regvars, invoked, copied, calls, issued, seen, held, pre, nops,
                 args, admin, notices>>

\* the handler called inside the `with _scripts_lock:` block of the check
DispatchCallCalls_Locked(t) ==
  /\ pc[t] = "h_call"
  /\ scripts_lock = 0
  /\ scripts_lock' = t
  /\ LET script_id == frame[t].handlers[1][1]
         handler == frame[t].handlers[1][3]
         inv == Append(invoked[t], <<script_id, handler>>)
         a == [args[t] EXCEPT !.given = Append(@, frame[t].args)]
     IN /\ CallsBack(t, handler)
        /\ invoked' = [invoked EXCEPT ![t] = inv]
        /\ args' = [args EXCEPT ![t] = a]
        /\ calls' = [calls EXCEPT ![script_id] = @ + 1]
        /\ \E callee \in Callees : CanCall(callee) /\ Suspends(t, callee, inv, a)
  /\ UNCHANGED <<scripts, next_script_id, hooks, hooks_lock, stats, copied,
                 cleanup_calls, issued, seen, held, pre, nops, admin, notices>>

\* ret = handler(*args, **kwargs), no lock held, where the handler calls an
\* operation of the registry
DispatchCallCalls(t) ==
  /\ pc[t] = "h_call"
  /\ LET script_id == frame[t].handlers[1][1]
         handler == frame[t].handlers[1][3]
         inv == Append(invoked[t], <<script_id, handler>>)
         a == [args[t] EXCEPT !.given = Append(@, frame[t].args)]
     IN /\ CallsBack(t, handler)
        /\ invoked' = [invoked EXCEPT ![t] = inv]
        /\ args' = [args EXCEPT ![t] = a]
        /\ calls' = [calls EXCEPT ![script_id] = @ + 1]
        /\ \E callee \in Callees : CanCall(callee) /\ Suspends(t, callee, inv, a)
  /\ UNCHANGED <<regvars, copied, cleanup_calls, issued, seen, held, pre, nops,
                 admin, notices>>

\* the callback of thread t is about to call the operation it calls
AtCallSite(t) ==
  stack[t] # <<>> /\ pc[t] = "idle" /\ frame[t].op = "callback"

\* the hooks a script registered by a callback binds
CallbackHookDicts == {[h \in {"OnTimer"} |-> "h_allow"]}

\* the callback calls the operation, which takes its first step
CallbackCall(t) ==
  /\ AtCallSite(t)
  /\ LET callee == stack[t][1].callee
     IN CASE callee = "register_script" ->
               \E n \in ScriptNames, hks \in CallbackHookDicts :
                  RegisterScript(t, n, hks, "None", DefaultPriority, TRUE)
          [] callee = "unregister_script" ->
               \E i \in IdInputs : UnregisterScript(t, i)
          [] callee = "enable_script" -> \E i \in IdInputs : EnableScript(t, i)
          [] callee = "disable_script" -> \E i \in IdInputs : DisableScript(t, i)
          [] callee = "get_script_info" -> \E i \in IdInputs : GetScriptInfo(t, i)
          [] callee = "list_scripts" -> ListScripts(t)
          [] callee = "get_stats" -> GetStats(t)
          [] callee = "OnTimer" -> OnTimer(t, "a")
          [] callee = "OnParsedMsgChat" -> OnParsedMsgChat(t, "a", "b")
  /\ UNCHANGED pre

\* the operation that the callback of thread t called has returned
CallbackCalled(t) ==
  stack[t] # <<>> /\ pc[t] = "idle" /\ frame[t].op # "callback"

\* the cleanup callback returns after its call: del _scripts[script_id],
\* and the `with` block is left
UnregisterCleanupReturns(t) ==
  /\ CallbackCalled(t)
  /\ stack[t][1].pc = "u_cleanup"
  /\ LET top == stack[t][1]
     IN /\ scripts' = DelScript(scripts, top.frame.script_id)
        /\ scripts_lock' = 0
        /\ frame' = [frame EXCEPT ![t] = top.frame]
        /\ invoked' = [invoked EXCEPT ![t] = top.invoked]
        /\ copied' = [copied EXCEPT ![t] = top.copied]
        /\ args' = [args EXCEPT ![t] = top.args]
  /\ stack' = [stack EXCEPT ![t] = Tail(@)]
  /\ Goto(t, "u_hooks")
  /\ UNCHANGED <<next_script_id, hooks_lock, hooks, stats, calls, cleanup_calls,
                 issued, seen, held, pre, nops, admin, notices>>

\* the handler returns 1 after its call: the for loop goes on
DispatchCallReturns(t) ==
  /\ CallbackCalled(t)
  /\ stack[t][1].pc = "h_call"
  /\ LET top == stack[t][1]
     IN /\ DispatchContinue(t, top.frame)
        /\ invoked' = [invoked EXCEPT ![t] = top.invoked]
        /\ copied' = [copied EXCEPT ![t] = top.copied]
        /\ args' = [args EXCEPT ![t] = top.args]
  /\ stack' = [stack EXCEPT ![t] = Tail(@)]
  /\ UNCHANGED <<regvars, calls, cleanup_calls, issued, seen, held, pre, nops,
                 admin, notices>>

\* SpecHandlerCalls: one host thread registers scripts that bind to OnTimer
\* a handler that calls the registry, or a plain handler to both hooks, with
\* or without a cleanup callback, and dispatches OnTimer; the handler calls
\* register_script, unregister_script, enable_script, disable_script,
\* get_script_info, list_scripts, get_stats or a hook entry point.
HandlerCallsHookDicts ==
  {[h \in {"OnTimer"} |-> "h_calls"], [h \in HookNames |-> "h_allow"]}

CallHandlerCalls(t) ==
  \/ \E n \in ScriptNames, hks \in HandlerCallsHookDicts, c \in {"None", "c_ok"} :
        RegisterScript(t, n, hks, c, DefaultPriority, TRUE)
  \/ OnTimer(t, "a")

\* the steps that continue what thread t has called
HandlerCallsSteps(t) ==
  \/ RegisterSteps(t)
  \/ UnregisterSteps(t)
  \/ HookLoopSteps(t)
  \/ ToggleSteps(t)
  \/ DispatchCount(t)
  \/ DispatchSnapshot(t)
  \/ DispatchCheck(t)
  \/ DispatchCall(t)
  \/ DispatchCallCalls(t)
  \/ CallbackCall(t)
  \/ DispatchCallReturns(t)

NextHandlerCalls ==
  \/ /\ Started < MaxOps
     /\ stack[1] = <<>>
     /\ CallHandlerCalls(1)
     /\ Observes(1)
  \/ HandlerCallsSteps(1)
SpecHandlerCalls == Init /\ [][NextHandlerCalls]_vars

\* SpecHandlerCallsFair: the host thread keeps running: what it has called
\* takes its next step as long as it has one.
SpecHandlerCallsFair == SpecHandlerCalls /\ WF_vars(HandlerCallsSteps(1))

\* SpecCleanupCalls: thread 1 registers scripts that bind a handler to
\* OnTimer and have a cleanup callback, one that just returns or one that
\* calls the registry, and unregisters them, while the other threads
\* dispatch OnTimer.
CleanupCallsHookDicts == {[h \in {"OnTimer"} |-> "h_allow"]}

CallCleanupCalls(t) ==
  IF t = 1
    THEN \/ \E n \in ScriptNames, hks \in CleanupCallsHookDicts,
               c \in {"c_ok", "c_calls"} :
              RegisterScript(t, n, hks, c, DefaultPriority, TRUE)
         \/ \E i \in IdInputs : UnregisterScript(t, i)
    ELSE OnTimer(t, "a")

\* the steps that continue what thread t has called
CleanupCallsSteps(t) ==
  \/ RegisterSteps(t)
  \/ UnregisterSteps(t)
  \/ DispatchCount(t)
  \/ DispatchSnapshot(t)
  \/ DispatchCheck(t)
  \/ DispatchCall(t)
  \/ UnregisterCleanupCalls(t)
  \/ CallbackCall(t)
  \/ UnregisterCleanupReturns(t)

NextCleanupCalls ==
  \E t \in Threads :
    \/ /\ Started < MaxOps
       /\ stack[t] = <<>>
       /\ CallCleanupCalls(t)
       /\ UNCHANGED pre
    \/ CleanupCallsSteps(t)
SpecCleanupCalls == Init /\ [][NextCleanupCalls]_vars

\* SpecCleanupCallsFair: every thread keeps running: what it has called
\* takes its next step as long as it has one.
SpecCleanupCallsFair ==
  SpecCleanupCalls /\ \A t \in Threads : WF_vars(CleanupCallsSteps(t))

\* SpecChain: one host thread; scripts bind a handler of each kind
\* to OnTimer at either priority, are disabled, enabled and
\* unregistered, and both hooks are dispatched.
ChainHookDicts == {[h \in {"OnTimer"} |-> x] : x \in Handlers}

CallChain(t) ==
  \/ \E n \in ScriptNames, hks \in ChainHookDicts, p \in Priorities :
        RegisterScript(t, n, hks, "None", p, TRUE)
  \/ \E i \in IdInputs : UnregisterScript(t, i)
  \/ \E i \in IdInputs : EnableScript(t, i)
  \/ \E i \in IdInputs : DisableScript(t, i)
  \/ \E h \in HookNames : HostEvent(t, h)

NextChain ==
  \/ Started < MaxOps /\ CallChain(1) /\ Observes(1)
  \/ RegisterSteps(1)
  \/ UnregisterHooks(1)
  \/ UnregisterStats(1)
  \/ ToggleSteps(1)
  \/ DispatchSteps(1)
SpecChain == Init /\ [][NextChain]_vars

\* SpecReturn: one host thread; scripts bind to OnTimer a handler that
\* returns 0, 1, 2, None, False, a str or 0.0, or that raises, and OnTimer is
\* dispatched.
ReturnHookDicts == {[h \in {"OnTimer"} |-> x] : x \in Handlers \cup OtherHandlers}

CallReturn(t) ==
  \/ \E n \in ScriptNames, hks \in ReturnHookDicts :
        RegisterScript(t, n, hks, "None", DefaultPriority, TRUE)
  \/ HostEvent(t, "OnTimer")

NextReturn ==
  \/ Started < MaxOps /\ CallReturn(1) /\ Observes(1)
  \/ RegisterSteps(1)
  \/ DispatchSteps(1)
SpecReturn == Init /\ [][NextReturn]_vars

\* SpecLife: one host thread; scripts without a cleanup callback and with one
\* that raises,
\* enabled or not, bound to one hook or to both, are registered,
\* unregistered, disabled, enabled and unloaded.
LifeHookDicts ==
  {[h \in {"OnTimer"} |-> "h_raise"], [h \in HookNames |-> "h_allow"]}

CallLife(t) ==
  \/ \E n \in ScriptNames, hks \in LifeHookDicts, c \in {"None", "c_raise"},
        e \in BOOLEAN : RegisterScript(t, n, hks, c, DefaultPriority, e)
  \/ \E i \in IdInputs : UnregisterScript(t, i)
  \/ \E i \in IdInputs : EnableScript(t, i)
  \/ \E i \in IdInputs : DisableScript(t, i)
  \/ \E h \in HookNames : HostEvent(t, h)
  \/ UnLoad(t)

NextLife ==
  \/ Started < MaxOps /\ CallLife(1) /\ Observes(1)
  \/ RegisterSteps(1)
  \/ UnregisterSteps(1)
  \/ HookLoopSteps(1)
  \/ ToggleSteps(1)
  \/ DispatchSteps(1)
  \/ UnLoadSteps(1)
SpecLife == Init /\ [][NextLife]_vars

\* SpecLifeFair: SpecLife with a host thread that keeps running: an
\* operation it has called takes its next step as long as it has one.
SpecLifeFair ==
  /\ SpecLife
  /\ WF_vars(UnregisterSteps(1) \/ HookLoopSteps(1) \/ UnLoadSteps(1))

\* SpecInfo: one host thread registers scripts, enabled or not, disables,
\* enables and unregisters them and asks for the information on one script
\* or on all, by ids that are stored, that were stored, or that were never
\* assigned.
InfoHookDicts == {[h \in {"OnTimer"} |-> "h_allow"]}

CallInfo(t) ==
  \/ \E n \in ScriptNames, hks \in InfoHookDicts, c \in {"None", "c_ok"},
        e \in BOOLEAN : RegisterScript(t, n, hks, c, DefaultPriority, e)
  \/ \E i \in IdInputs : UnregisterScript(t, i)
  \/ \E i \in IdInputs : EnableScript(t, i)
  \/ \E i \in IdInputs : DisableScript(t, i)
  \/ \E i \in IdInputs : GetScriptInfo(t, i)
  \/ ListScripts(t)

NextInfo ==
  \/ Started < MaxOps /\ CallInfo(1) /\ Observes(1)
  \/ RegisterSteps(1)
  \/ UnregisterSteps(1)
  \/ ToggleSteps(1)
SpecInfo == Init /\ [][NextInfo]_vars

\* SpecArgs: one host thread; scripts bind a handler of any kind to one of
\* the hooks, are disabled and enabled, and the host raises the events of
\* both hooks with every choice of argument values.
ArgsHookDicts == {[h \in {k} |-> x] : k \in HookNames, x \in Handlers}

CallArgs(t) ==
  \/ \E n \in ScriptNames, hks \in ArgsHookDicts :
        RegisterScript(t, n, hks, "None", DefaultPriority, TRUE)
  \/ \E i \in DOMAIN scripts : EnableScript(t, i)
  \/ \E i \in DOMAIN scripts : DisableScript(t, i)
  \/ \E msec \in ArgValues : OnTimer(t, msec)
  \/ \E nick, message \in ArgValues : OnParsedMsgChat(t, nick, message)

NextArgs ==
  \/ Started < MaxOps /\ CallArgs(1) /\ Observes(1)
  \/ RegisterSteps(1)
  \/ ToggleSteps(1)
  \/ DispatchSteps(1)
SpecArgs == Init /\ [][NextArgs]_vars

\* SpecAdmin: one host thread; scripts, enabled or not, bind a handler to
\* OnTimer or to OnHubCommand, and users of class 9 and 10 send hub commands:
\* other commands, and the dispatcher commands with subcommands that are
\* valid, missing, unknown, in upper case, with ids that are stored, not
\* stored, not numbers, or missing, while vh.pm works or raises.
AdminHookDicts ==
  {[h \in {"OnTimer"} |-> "h_allow"]}
    \cup {[h \in {AdminHook} |-> x] : x \in {"h_allow", "h_block", "h_raise"}}

IdWords == {"1", "2", "9", "abc"}

Commands ==
  {<<>>, <<"hello">>, <<"dispatcher">>, <<" ", "dispatcher", " ", " ", "List">>}
    \cup {<<"dispatcher", " ", w>> :
            w \in {"list", "stats", "help", "bogus", "enable", "disable"}}
    \cup {<<"dispatcher", " ", w, " ", i>> :
            w \in {"enable", "disable", "ENABLE"}, i \in IdWords}

UserClasses == {9, 10}

CallAdmin(t) ==
  \/ \E n \in ScriptNames, hks \in AdminHookDicts, e \in BOOLEAN :
        RegisterScript(t, n, hks, "None", DefaultPriority, e)
  \/ \E c \in Commands, u \in UserClasses : OnHubCommand(t, "nick", c, u, FALSE, "!")

AdminSteps(t) ==
  \/ AdminBlocked(t)
  \/ AdminNotOurs(t)
  \/ AdminDenied(t)
  \/ AdminUsage(t)
  \/ AdminList(t)
  \/ AdminStats(t)
  \/ AdminHelp(t)
  \/ AdminUnknown(t)
  \/ AdminBadId(t)
  \/ AdminToggle(t)
  \/ AdminToggled(t)

NextAdmin ==
  \/ Started < MaxAdminOps /\ admin[1].at = "none" /\ CallAdmin(1) /\ Observes(1)
  \/ RegisterSteps(1)
  \/ ToggleSteps(1)
  \/ DispatchSteps(1)
  \/ AdminSteps(1)
SpecAdmin == Init /\ [][NextAdmin]_vars

\* Spec: every host thread, the operations interleave.
ConcHookDicts ==
  {[h \in {"OnTimer"} |-> x] : x \in {"h_allow", "h_block", "h_raise"}}

Call(t) ==
  \/ \E n \in ScriptNames, hks \in ConcHookDicts, c \in {"None", "c_ok"} :
        RegisterScript(t, n, hks, c, DefaultPriority, TRUE)
  \/ \E i \in IdInputs : UnregisterScript(t, i)
  \/ \E i \in IdInputs : EnableScript(t, i)
  \/ \E i \in IdInputs : DisableScript(t, i)
  \/ OnTimer(t, "a")
  \/ UnLoad(t)

Next ==
  \E t \in Threads :
    \/ Started < MaxConcOps /\ Call(t) /\ UNCHANGED pre
    \/ RegisterSteps(t)
    \/ UnregisterSteps(t)
    \/ ToggleSteps(t)
    \/ DispatchSteps(t)
    \/ UnLoadSteps(t)
Spec == Init /\ [][Next]_vars

\* SpecDispatch: one script binds one handler to OnTimer; then every host
\* thread makes MaxCalls calls of OnTimer.
Dispatched(t) == IF t = 1 /\ nops[t] > 0 THEN nops[t] - 1 ELSE nops[t]

NextDispatch ==
  \/ \E n \in ScriptNames, hks \in ConcHookDicts, p \in Priorities :
        /\ next_script_id = 1
        /\ RegisterScript(1, n, hks, "None", p, TRUE)
        /\ UNCHANGED pre
  \/ RegisterSteps(1)
  \/ \E t \in Threads :
        \/ /\ stats.total_scripts = 1
           /\ Dispatched(t) < MaxCalls
           /\ OnTimer(t, "a")
           /\ UNCHANGED pre
        \/ DispatchSteps(t)
SpecDispatch == Init /\ [][NextDispatch]_vars

\* SpecObserve: every host thread; every script binds a handler to both
\* hooks and has a cleanup callback; the threads register, unregister,
\* enable, disable, dispatch and look at the registry with get_script_info,
\* list_scripts and get_stats, and the operations interleave.
ObserveHookDicts == {[h \in HookNames |-> "h_allow"]}

\* the ids the callers pass: those in the store and one that is not
StoredIdInputs == DOMAIN scripts \cup {next_script_id}

CallObserve(t) ==
  \/ \E n \in ScriptNames, hks \in ObserveHookDicts :
        RegisterScript(t, n, hks, "c_ok", DefaultPriority, TRUE)
  \/ \E i \in StoredIdInputs : UnregisterScript(t, i)
  \/ \E i \in DOMAIN scripts : EnableScript(t, i)
  \/ \E i \in DOMAIN scripts : DisableScript(t, i)
  \/ \E i \in DOMAIN scripts : GetScriptInfo(t, i)
  \/ ListScripts(t)
  \/ GetStats(t)
  \/ OnTimer(t, "a")

\* the steps of the operations of SpecObserve in progress on thread t
ObserveSteps(t) ==
  \/ RegisterSteps(t)
  \/ UnregisterSteps(t)
  \/ HookLoopSteps(t)
  \/ ToggleSteps(t)
  \/ DispatchCount(t)
  \/ DispatchSnapshot(t)
  \/ DispatchCheck(t)
  \/ DispatchCall(t)

NextObserve ==
  \E t \in Threads :
    \/ Started < MaxConcOps /\ CallObserve(t) /\ UNCHANGED pre
    \/ ObserveSteps(t)
SpecObserve == Init /\ [][NextObserve]_vars

\* SpecRace: thread 1 registers scripts that bind OnTimer at either
\* priority, and unregisters, enables and disables them, while the other
\* threads dispatch OnTimer.
CallRace(t) ==
  IF t = 1
    THEN \/ \E n \in ScriptNames, hks \in ConcHookDicts, p \in Priorities :
              RegisterScript(t, n, hks, "None", p, TRUE)
         \/ \E i \in StoredIdInputs : UnregisterScript(t, i)
         \/ \E i \in StoredIdInputs : EnableScript(t, i)
         \/ \E i \in StoredIdInputs : DisableScript(t, i)
    ELSE OnTimer(t, "a")

NextRace ==
  \E t \in Threads :
    \/ Started < MaxOps /\ CallRace(t) /\ UNCHANGED pre
    \/ RegisterSteps(t)
    \/ UnregisterHooks(t)
    \/ UnregisterStats(t)
    \/ ToggleSteps(t)
    \/ DispatchSteps(t)
SpecRace == Init /\ [][NextRace]_vars

(***************************************************************************)
(* Properties.                                                             *)
(***************************************************************************)
\* the last operation of thread t was op, and it has returned
Returned(t, op) == pc[t] = "idle" /\ frame[t].op = op

AllIdle == \A t \in Threads : pc[t] = "idle"

\* a call of handler h returns the integer 0
ReturnsBlock(h) == ~HandlerRaises(h) /\ HandlerReturn(h) = PyInt(Block)

\* the number of entries of the call log inv whose handler raised
RECURSIVE Raisers(_)
Raisers(inv) ==
  IF inv = <<>> THEN 0
  ELSE (IF HandlerRaises(inv[Len(inv)][2]) THEN 1 ELSE 0)
         + Raisers(SubSeq(inv, 1, Len(inv) - 1))

\* the ids of S in ascending order of (priority, id) in the store
RECURSIVE InChainOrder(_, _)
InChainOrder(S, store) ==
  IF S = {} THEN <<>>
  ELSE LET m == CHOOSE x \in S : \A y \in S :
                  \/ store[x].priority < store[y].priority
                  \/ store[x].priority = store[y].priority /\ x <= y
       IN <<m>> \o InChainOrder(S \ {m}, store)

\* the chain of hook K in a store: the enabled scripts that bind K, by
\* ascending priority and, at equal priority, in order of registration
Chain(store, K) ==
  InChainOrder({i \in DOMAIN store : store[i].enabled /\ K \in DOMAIN store[i].hooks},
               store)

\* C1: a dispatch with no concurrent mutation calls the enabled handlers of
\* its hook in ascending priority order, equal priorities in the order of
\* their register_script calls: what it has called when it returns is the
\* chain of the hook from its start, up to the end or to a handler returning 0.
C1_PriorityOrder ==
  \A t \in Threads : Returned(t, "dispatch") =>
    LET K == frame[t].hook_name
        exp == Chain(pre[t].scripts, K)
        inv == invoked[t]
    IN /\ Len(inv) <= Len(exp)
       /\ \A i \in 1..Len(inv) :
            /\ inv[i][1] = exp[i]
            /\ inv[i][2] = pre[t].scripts[exp[i]].hooks[K]
       /\ Len(inv) < Len(exp) => Len(inv) > 0 /\ ReturnsBlock(inv[Len(inv)][2])

\* three scripts registered at priorities 100, 10, 100 were called in the
\* order 2, 1, 3
C1_Witness ==
  /\ Returned(1, "dispatch")
  /\ Len(invoked[1]) = 3
  /\ invoked[1][1][1] = 2 /\ invoked[1][2][1] = 1 /\ invoked[1][3][1] = 3
  /\ scripts[1].priority = DefaultPriority /\ scripts[3].priority = DefaultPriority

C3_RaiseContinues ==
  \A t \in Threads : Returned(t, "dispatch") =>
    LET K == frame[t].hook_name
        exp == Chain(pre[t].scripts, K)
        inv == invoked[t]
    IN /\ ret[t] \in {PyInt(Allow), PyInt(Block)}
       /\ \A i \in 1..Len(inv) :
            (HandlerRaises(inv[i][2]) /\ i = Len(inv)) => i = Len(exp)
       /\ stats.failed_calls[K] = pre[t].stats.failed_calls[K] + Raisers(inv)
       /\ ( /\ Len(exp) = 2
            /\ pre[t].scripts[exp[1]].priority = 10
            /\ HandlerRaises(pre[t].scripts[exp[1]].hooks[K])
            /\ pre[t].scripts[exp[2]].priority = DefaultPriority
            /\ pre[t].scripts[exp[2]].hooks[K] = "h_allow" )
          => /\ inv = << <<exp[1], pre[t].scripts[exp[1]].hooks[K]>>,
                         <<exp[2], "h_allow">> >>
             /\ stats.failed_calls[K] = pre[t].stats.failed_calls[K] + 1
             /\ stats.total_calls[K] = pre[t].stats.total_calls[K] + 1
             /\ ret[t] = PyInt(Allow)

\* the raising handler at priority 10 and the allowing one at 100 were both
\* called, the counters went from 0 to 1, the dispatch returned 1
C3_Witness ==
  /\ Returned(1, "dispatch")
  /\ Len(invoked[1]) = 2
  /\ HandlerRaises(invoked[1][1][2]) /\ invoked[1][2][2] = "h_allow"
  /\ scripts[invoked[1][1][1]].priority = 10
  /\ scripts[invoked[1][2][1]].priority = DefaultPriority
  /\ stats.failed_calls[frame[1].hook_name] = 1
  /\ stats.total_calls[frame[1].hook_name] = 1
  /\ ret[1] = PyInt(Allow)

\* C4: a dispatch returns 0 exactly when one of the handlers it called
\* returned 0, and 1 in every other case (no handler, handlers skipped,
\* handlers that raised or returned something else), under every interleaving.
C4_BlockIffReturned ==
  \A t \in Threads : Returned(t, "dispatch") =>
    /\ ret[t] \in {PyInt(Allow), PyInt(Block)}
    /\ ret[t] = PyInt(Block) <=>
         \E i \in 1..Len(invoked[t]) : ReturnsBlock(invoked[t][i][2])

\* a dispatch whose only called handler raised returned 1
C4_Witness ==
  \E t \in Threads :
    /\ Returned(t, "dispatch")
    /\ Len(invoked[t]) = 1 /\ HandlerRaises(invoked[t][1][2])
    /\ ret[t] = PyInt(Allow)

\* C5: a dispatch of hook K adds exactly one to total_calls[K] and nothing to
\* the count of any other hook; with no handler bound to K it returns 1,
\* calls nothing and leaves the rest of the registry as it was.
C5_CountedOnce ==
  \A t \in Threads : Returned(t, "dispatch") =>
    LET K == frame[t].hook_name
    IN /\ stats.total_calls = [pre[t].stats.total_calls EXCEPT ![K] = @ + 1]
       /\ pre[t].hooks[K] = <<>> =>
            /\ ret[t] = PyInt(Allow)
            /\ invoked[t] = <<>>
            /\ scripts = pre[t].scripts
            /\ hooks = pre[t].hooks
            /\ next_script_id = pre[t].next_script_id
            /\ stats = [pre[t].stats EXCEPT !.total_calls[K] = @ + 1]
            /\ calls = pre[t].calls
            /\ cleanup_calls = pre[t].cleanup_calls

\* a hook without handlers was dispatched a second time while the other hook
\* had handlers
C5_Witness ==
  /\ Returned(1, "dispatch")
  /\ hooks[frame[1].hook_name] = <<>>
  /\ \E h \in HookNames : hooks[h] # <<>>
  /\ stats.total_calls[frame[1].hook_name] = 2

\* C6: one enabled handler bound to OnTimer, every thread making MaxCalls
\* dispatch calls of OnTimer concurrently: at rest the handler has been called
\* once for every call made, and so has total_calls been counted; after all
\* calls that is MaxCalls * NThreads of each.
C6_NoLostUpdate ==
  AllIdle =>
    /\ calls[1] = SumOver([t \in Threads |-> Dispatched(t)], Threads)
    /\ stats.total_calls["OnTimer"] = calls[1]
    /\ (\A t \in Threads : Dispatched(t) = MaxCalls) =>
         /\ calls[1] = MaxCalls * NThreads
         /\ stats.total_calls["OnTimer"] = MaxCalls * NThreads

\* every thread has made its MaxCalls calls and all have returned
C6_Witness ==
  /\ AllIdle
  /\ \A t \in Threads : Dispatched(t) = MaxCalls
  /\ calls[1] = MaxCalls * NThreads
  /\ stats.total_calls["OnTimer"] = MaxCalls * NThreads

\* C7: register_script calls running concurrently on several threads get
\* pairwise distinct ids, each call returns the id it was assigned, and once
\* all have returned total_scripts is the number of calls made.
C7_DistinctIds ==
  /\ \A t1, t2 \in Threads :
       (t1 # t2 /\ frame[t1].op = "register" /\ frame[t2].op = "register")
         => frame[t1].script_id # frame[t2].script_id
  /\ \A t \in Threads :
       Returned(t, "register") => ret[t] = PyInt(frame[t].script_id)
  /\ \A i, j \in 1..Len(issued) :
       i # j => issued[i].script_id # issued[j].script_id
  /\ AllIdle => stats.total_scripts = Len(issued)

\* two register_script calls overlapped (the later id was bound first) and
\* returned different ids
C7_Witness ==
  /\ Returned(1, "register") /\ Returned(2, "register")
  /\ ret[1] # ret[2]
  /\ Len(hooks["OnTimer"]) = 2
  /\ hooks["OnTimer"][1][1] = 2 /\ hooks["OnTimer"][2][1] = 1
  /\ stats.total_scripts = 2

\* C8: ids are never reused: from the empty registry the ids assigned are
\* 1, 2, 3, ... in order of assignment, each greater than all before it,
\* whatever was unregistered in between.
C8_IdsNeverReused ==
  /\ \A i \in 1..Len(issued) : issued[i].script_id = i
  /\ next_script_id = Len(issued) + 1
  /\ \A id \in DOMAIN scripts : id < next_script_id

\* script 1 was unregistered before the register_script call that got id 2
\* started
C8_Witness ==
  \E t \in Threads :
    /\ frame[t].op = "register" /\ frame[t].script_id = 2
    /\ pre[t].next_script_id = 2
    /\ 1 \notin DOMAIN pre[t].scripts

\* C9: unregister_script(id) of a registered id returns True, takes id out of
\* the store (list_scripts), takes one off active_scripts and leaves no
\* binding of id in the list of any hook, the other bindings staying;
\* of an id not in the store (so a second call) it returns False and the
\* registry is as before.
C9_Unregister ==
  \A t \in Threads : Returned(t, "unregister") =>
    LET id == frame[t].script_id
    IN IF id \in DOMAIN pre[t].scripts
         THEN /\ ret[t] = PyTrue
              /\ DOMAIN scripts = DOMAIN pre[t].scripts \ {id}
              /\ stats.active_scripts = pre[t].stats.active_scripts - 1
              /\ \A h \in HookNames :
                   /\ \A k \in 1..Len(hooks[h]) : hooks[h][k][1] # id
                   /\ Len(hooks[h]) =
                        Cardinality({k \in 1..Len(pre[t].hooks[h]) :
                                       pre[t].hooks[h][k][1] # id})
         ELSE /\ ret[t] = PyFalse
              /\ scripts = pre[t].scripts
              /\ hooks = pre[t].hooks
              /\ stats = pre[t].stats
              /\ next_script_id = pre[t].next_script_id
              /\ cleanup_calls = pre[t].cleanup_calls
              /\ calls = pre[t].calls

\* script 1, which had a cleanup callback, was unregistered while script 2
\* stayed, and unregister_script(1) was called again and returned False
C9_Witness ==
  /\ Returned(1, "unregister")
  /\ frame[1].script_id = 1
  /\ ret[1] = PyFalse
  /\ cleanup_calls[1] = 1
  /\ DOMAIN scripts = {2}

\* C10: the cleanup callback of a script has been called once if the script
\* has been removed from the store and not at all while it is registered,
\* in every state and under every interleaving of register, enable, disable,
\* dispatch, unregister_script and UnLoad.
C10_CleanupOnce ==
  \A id \in ScriptIds :
    cleanup_calls[id] =
      IF /\ \E i \in 1..Len(issued) :
              issued[i].script_id = id /\ issued[i].cleanup # "None"
         /\ id \notin DOMAIN scripts
        THEN 1 ELSE 0

\* UnLoad found script 1 in the store and went on to unregister it, while
\* unregister_script(1) on another thread removed it; both have returned and
\* its cleanup was called once
C10_Witness ==
  \E t1, t2 \in Threads :
    /\ Returned(t1, "UnLoad") /\ frame[t1].script_id = 1
    /\ Returned(t2, "unregister") /\ frame[t2].script_id = 1
    /\ ret[t2] = PyTrue
    /\ cleanup_calls[1] = 1

\* C11: when the cleanup callback raises during unregister_script(id), the
\* caller sees no exception: the call returns True, id is out of the store,
\* no hook list holds a binding of id, and the counters are those a
\* returning cleanup leaves: active_scripts one less, id out of the disabled
\* set, the rest as before; the callback was called once.
C11_CleanupRaiseCaught ==
  \A t \in Threads :
    (/\ Returned(t, "unregister")
     /\ frame[t].script_id \in DOMAIN pre[t].scripts
     /\ CleanupRaises(pre[t].scripts[frame[t].script_id].cleanup)) =>
      LET id == frame[t].script_id
      IN /\ ret[t] = PyTrue
         /\ DOMAIN scripts = DOMAIN pre[t].scripts \ {id}
         /\ \A h \in HookNames :
              hooks[h] = SelectSeq(pre[t].hooks[h], LAMBDA e : e[1] # id)
         /\ stats = [pre[t].stats EXCEPT !.active_scripts = @ - 1,
                                         !.disabled_scripts = @ \ {id}]
         /\ cleanup_calls = [pre[t].cleanup_calls EXCEPT ![id] = @ + 1]

\* unregister_script of a script bound to both hooks whose cleanup raises has
\* returned True, another script staying bound
C11_Witness ==
  /\ Returned(1, "unregister")
  /\ ret[1] = PyTrue
  /\ frame[1].script_id \in DOMAIN pre[1].scripts
  /\ CleanupRaises(pre[1].scripts[frame[1].script_id].cleanup)
  /\ Len(pre[1].hooks["OnParsedMsgChat"]) = 2
  /\ Len(hooks["OnParsedMsgChat"]) = 1
  /\ cleanup_calls[frame[1].script_id] = 1

\* C12: whenever no operation is in progress, after any sequence of register
\* (auto_enable true or false), enable, disable and unregister calls, the
\* active count plus the disabled count that get_stats reports equals the
\* number of scripts in the store.
C12_CountsMatchStore ==
  AllIdle =>
    StatsDict(stats, hooks).active_scripts + StatsDict(stats, hooks).disabled_scripts
      = Cardinality(DOMAIN scripts)

\* C13: no observer running concurrently with register_script or
\* unregister_script sees a script partly installed.  In SpecObserve every
\* script binds both hooks, so a script is bound in the list of each hook or
\* of none: the per-hook binding counts a get_stats call returns agree (the
\* same hook names, the same length for each).
C13_NoPartialState ==
  \A t \in Threads : Returned(t, "get_stats") =>
    \A h1, h2 \in HookNames :
      /\ h1 \in DOMAIN seen[t].hooks <=> h2 \in DOMAIN seen[t].hooks
      /\ (h1 \in DOMAIN seen[t].hooks /\ h2 \in DOMAIN seen[t].hooks)
           => seen[t].hooks[h1] = seen[t].hooks[h2]

\* C14: a binding never exists without its script: whenever no operation is
\* in progress, every entry (id, priority, handler) of every hook list has its
\* id in the store, also after a register_script that ran concurrently with
\* unregister_script or UnLoad of the same id.
C14_NoOrphanBinding ==
  AllIdle =>
    \A h \in HookNames : \A k \in 1..Len(hooks[h]) :
      hooks[h][k][1] \in DOMAIN scripts

\* the registry locks thread t holds (_stats_lock is never held from one
\* step to the next)
LocksHeld(t) ==
  {l \in {"scripts"} : scripts_lock = t} \cup {l \in {"hooks"} : hooks_lock = t}

\* thread t is about to run user code: a handler or a cleanup callback
RunsUserCode(t) == pc[t] \in {"h_call", "u_cleanup"}

\* C15: the calling thread holds no registry lock at any moment when user
\* code runs: neither while _dispatch_hook calls a handler nor while
\* unregister_script calls a cleanup callback.
C15_NoLockInUserCode ==
  \A t \in Threads : RunsUserCode(t) => LocksHeld(t) = {}

\* C16: the locks are taken in one order (the store lock before the
\* hook-table lock; no thread ever holds both), and no set of concurrently
\* running public operations whose handlers and cleanups return reaches a
\* state in which each waits for a lock held by another: a held lock has a
\* holder that is inside an operation and can take its next step, and a
\* thread inside an operation can take a step or waits for such a holder.
C16_NoDeadlock ==
  /\ \A t \in Threads : Cardinality(LocksHeld(t)) <= 1
  /\ scripts_lock \in Threads => LocksHeld(scripts_lock) = {"scripts"}
  /\ hooks_lock \in Threads => LocksHeld(hooks_lock) = {"hooks"}
  /\ \A t \in Threads :
       LocksHeld(t) # {} => pc[t] # "idle" /\ ENABLED ObserveSteps(t)
  /\ \A t \in Threads :
       (pc[t] # "idle" /\ ~ENABLED ObserveSteps(t)) =>
         \E u \in Threads \ {t} : LocksHeld(u) # {} /\ ENABLED ObserveSteps(u)

\* a dispatch waits for the store lock, which unregister_script on another
\* thread holds while the cleanup callback runs
C16_Witness ==
  \E t, u \in Threads :
    /\ t # u
    /\ pc[t] = "h_check" /\ scripts_lock = u /\ pc[u] = "u_cleanup"
    /\ ~ENABLED ObserveSteps(t)

\* the entries of a hook list whose script is in the store and enabled, as
\* <<script_id, handler>>, in the order of the list
RECURSIVE EnabledOf(_, _)
EnabledOf(list, store) ==
  IF list = <<>> THEN <<>>
  ELSE LET e == Head(list)
       IN (IF e[1] \in DOMAIN store /\ store[e[1]].enabled
             THEN << <<e[1], e[3]>> >> ELSE <<>>)
          \o EnabledOf(Tail(list), store)

\* C17: disable_script(id) returning True leaves id in the store (and so in
\* list_scripts) with its flag off and every hook list as it was; a dispatch
\* that starts afterwards calls no handler of a disabled script: it calls
\* the enabled entries of the hook list, in the order of the list, up to a
\* handler returning 0.  enable_script(id) returning True sets the flag and
\* leaves every hook list as it was, so the handlers of id are called again
\* from the position they had.
C17_DisableSkipsEnableRestores ==
  \A t \in Threads :
    /\ (Returned(t, "disable") /\ ret[t] = PyTrue) =>
         /\ frame[t].script_id \in DOMAIN scripts
         /\ ~scripts[frame[t].script_id].enabled
         /\ hooks = pre[t].hooks
    /\ (Returned(t, "enable") /\ ret[t] = PyTrue) =>
         /\ frame[t].script_id \in DOMAIN scripts
         /\ scripts[frame[t].script_id].enabled
         /\ hooks = pre[t].hooks
    /\ Returned(t, "dispatch") =>
         LET exp == EnabledOf(pre[t].hooks[frame[t].hook_name], pre[t].scripts)
             inv == invoked[t]
         IN /\ Len(inv) <= Len(exp)
            /\ inv = SubSeq(exp, 1, Len(inv))
            /\ Len(inv) < Len(exp) => Len(inv) > 0 /\ ReturnsBlock(inv[Len(inv)][2])
            /\ hooks = pre[t].hooks

\* of two scripts bound to the hook, the first of the list is disabled and
\* still stored and bound: the dispatch has called the second one only
C17_Witness ==
  /\ Returned(1, "dispatch")
  /\ Len(hooks[frame[1].hook_name]) = 2
  /\ hooks[frame[1].hook_name][1][1] \in DOMAIN scripts
  /\ ~scripts[hooks[frame[1].hook_name][1][1]].enabled
  /\ Len(invoked[1]) = 1
  /\ invoked[1][1][1] = hooks[frame[1].hook_name][2][1]

\* sub is seq with some of its entries left out
RECURSIVE IsSubSeq(_, _)
IsSubSeq(sub, seq) ==
  IF sub = <<>> THEN TRUE
  ELSE IF seq = <<>> THEN FALSE
  ELSE IF Head(sub) = Head(seq) THEN IsSubSeq(Tail(sub), Tail(seq))
  ELSE IsSubSeq(sub, Tail(seq))

\* the entries of a list of bindings as <<script_id, handler>>
RECURSIVE Entries(_)
Entries(list) ==
  IF list = <<>> THEN <<>>
  ELSE << <<Head(list)[1], Head(list)[3]>> >> \o Entries(Tail(list))

\* C18: a dispatch walks the list of bindings of its hook as it was when the
\* dispatch copied it: what it calls are entries of the copy, in the order
\* of the copy, so a binding added after the copy is not called in that
\* call; and the copy holds every binding the list has when it is taken, so
\* a binding added before is considered, from the next dispatch on.
C18_IteratesCopy ==
  /\ [](\A t \in Threads : IsSubSeq(invoked[t], Entries(copied[t])))
  /\ [][\A t \in Threads :
          (pc[t] = "h_snapshot" /\ pc'[t] # "h_snapshot")
            => copied'[t] = hooks[frame[t].hook_name]]_vars

\* a dispatch has returned having called the one handler of its copy, while
\* the list of the hook holds a second binding, added in front of it after the
\* copy
C18_Witness ==
  \E t \in Threads :
    /\ Returned(t, "dispatch")
    /\ Len(copied[t]) = 1 /\ Len(invoked[t]) = 1
    /\ Len(hooks["OnTimer"]) = 2
    /\ hooks["OnTimer"][2] = copied[t][1]
    /\ hooks["OnTimer"][1][1] \in DOMAIN scripts
    /\ scripts[hooks["OnTimer"][1][1]].enabled

\* the turn of the next binding of its copy has come for the dispatch on
\* thread t, and the script of that binding is gone from the store or disabled
TurnOfGone(t) ==
  /\ pc[t] = "h_check"
  /\ LET id == frame[t].handlers[1][1]
     IN id \notin DOMAIN scripts \/ ~scripts[id].enabled

\* C19: a binding of the copy whose script was unregistered or disabled after
\* the copy was taken and before its turn is skipped: in the step that takes
\* the turn no handler is called, no counter changes, and the dispatch goes
\* on to the next binding with its result as it was, or returns that result.
C19_GoneIsSkipped ==
  [][\A t \in Threads :
       (TurnOfGone(t) /\ (pc'[t] # pc[t] \/ frame'[t] # frame[t])) =>
         /\ invoked' = invoked
         /\ calls' = calls
         /\ stats' = stats
         /\ IF pc'[t] = "idle"
              THEN ret'[t] = PyInt(frame[t].result)
              ELSE /\ pc'[t] = "h_check"
                   /\ frame'[t].handlers = Tail(frame[t].handlers)
                   /\ frame'[t].result = frame[t].result]_vars

\* a dispatch has returned 1 without a call or a failed call: the one
\* binding of its copy, of a handler that blocks or raises, belongs to a
\* script that was disabled or unregistered by the time its turn came
C19_Witness ==
  \E t \in Threads :
    /\ Returned(t, "dispatch")
    /\ Len(copied[t]) = 1
    /\ copied[t][1][3] \in {"h_block", "h_raise"}
    /\ invoked[t] = <<>>
    /\ ret[t] = PyInt(Allow)
    /\ stats.failed_calls["OnTimer"] = 0
    /\ calls[copied[t][1][1]] = 0

\* C20: of two scripts bound to the same hook that a dispatch has both
\* called and that are both in the store, the one with the lower priority
\* number was called first, on every call and under every interleaving with
\* register, unregister, enable and disable calls.
C20_PriorityOrderKept ==
  \A t \in Threads : \A i, j \in 1..Len(invoked[t]) :
    LET a == invoked[t][i][1]
        b == invoked[t][j][1]
    IN (/\ a \in DOMAIN scripts /\ b \in DOMAIN scripts
        /\ scripts[a].priority < scripts[b].priority) => i < j

\* a dispatch called script 2 (priority 10) before script 1 (priority 100)
\* while script 3 was registered and bound to the same hook
C20_Witness ==
  \E t \in Threads :
    /\ Returned(t, "dispatch")
    /\ Len(copied[t]) = 2
    /\ Len(invoked[t]) = 2
    /\ invoked[t][1][1] = 2 /\ invoked[t][2][1] = 1
    /\ DOMAIN scripts = {1, 2, 3}
    /\ scripts[2].priority < scripts[1].priority
    /\ Len(hooks["OnTimer"]) = 3

\* C21: in every reachable state, also after concurrent register_script
\* calls, each hook list is sorted by ascending priority and, among equal
\* priorities, by ascending registration id.
C21_ListsSorted ==
  \A h \in HookNames : \A k, l \in 1..Len(hooks[h]) :
    k < l =>
      \/ hooks[h][k][2] < hooks[h][l][2]
      \/ /\ hooks[h][k][2] = hooks[h][l][2]
         /\ hooks[h][k][1] < hooks[h][l][1]

\* C22: a register_script call adds exactly one registration to the store
\* and one binding to the list of each hook named in its hook map and to no
\* other list, adds one to total_scripts, adds one to active_scripts exactly
\* when auto_enable is true, returns the new id, and calls no handler and no
\* cleanup.
C22_RegisterFrame ==
  [][(pc[1] = "r_stats" /\ pc'[1] = "idle") =>
       LET reg == frame[1].reg
           id == pre[1].next_script_id
           IsOfId(e) == e[1] = id
           NotOfId(e) == e[1] # id
       IN /\ ret'[1] = PyInt(id)
          /\ id \notin DOMAIN pre[1].scripts
          /\ DOMAIN scripts' = DOMAIN pre[1].scripts \cup {id}
          /\ \A i \in DOMAIN pre[1].scripts : scripts'[i] = pre[1].scripts[i]
          /\ scripts'[id] = [name |-> reg.name, hooks |-> reg.hooks,
                             cleanup |-> reg.cleanup, priority |-> reg.priority,
                             enabled |-> reg.auto_enable]
          /\ \A h \in HookNames :
               IF h \in DOMAIN reg.hooks
                 THEN /\ SelectSeq(hooks'[h], IsOfId)
                           = <<(<<id, reg.priority, reg.hooks[h]>>)>>
                      /\ SelectSeq(hooks'[h], NotOfId) = pre[1].hooks[h]
                 ELSE hooks'[h] = pre[1].hooks[h]
          /\ stats'.total_scripts = pre[1].stats.total_scripts + 1
          /\ stats'.active_scripts = pre[1].stats.active_scripts
                                       + (IF reg.auto_enable THEN 1 ELSE 0)
          /\ stats'.disabled_scripts = pre[1].stats.disabled_scripts
          /\ stats'.total_calls = pre[1].stats.total_calls
          /\ stats'.failed_calls = pre[1].stats.failed_calls
          /\ calls' = pre[1].calls
          /\ cleanup_calls' = pre[1].cleanup_calls
          /\ invoked'[1] = <<>>]_vars

\* a register_script call with a hook map of OnTimer alone and auto_enable
\* false has returned while the list of OnParsedMsgChat held a binding
C22_Witness ==
  /\ Returned(1, "register")
  /\ ret[1].val \in DOMAIN scripts
  /\ DOMAIN scripts[ret[1].val].hooks = {"OnTimer"}
  /\ ~scripts[ret[1].val].enabled
  /\ stats.total_scripts = pre[1].stats.total_scripts + 1
  /\ stats.active_scripts = pre[1].stats.active_scripts
  /\ Len(hooks["OnParsedMsgChat"]) = 1
  /\ hooks["OnParsedMsgChat"] = pre[1].hooks["OnParsedMsgChat"]

\* C23: enable_script, disable_script, unregister_script and get_script_info
\* called with an id that is not in the store return False (None for
\* get_script_info) in one step, raise nothing, call no handler and no
\* cleanup, and leave the store, the hook table and every statistics counter
\* as they were.
C23_UnknownIdRefused ==
  [][\A t \in Threads :
       (/\ pc[t] = "idle"
        /\ nops'[t] = nops[t] + 1
        /\ frame'[t].op \in {"enable", "disable", "unregister", "get_script_info"}
        /\ frame'[t].script_id \notin DOMAIN scripts) =>
         /\ pc'[t] = "idle"
         /\ ret'[t] = IF frame'[t].op = "get_script_info" THEN PyNone ELSE PyFalse
         /\ regvars' = regvars
         /\ calls' = calls
         /\ cleanup_calls' = cleanup_calls
         /\ invoked'[t] = <<>>]_vars

\* enable_script has returned False for the id of a script that was
\* unregistered, while another script is in the store, disabled
C23_Witness ==
  /\ Returned(1, "enable")
  /\ ret[1] = PyFalse
  /\ frame[1].script_id < next_script_id
  /\ frame[1].script_id \notin DOMAIN scripts
  /\ \E i \in DOMAIN scripts : ~scripts[i].enabled
  /\ stats = pre[1].stats

\* C24: an enable_script or disable_script call on a registered id changes
\* only the enabled flag of that registration: the hook table, the name,
\* hooks, priority and cleanup of every registration, the flag of every
\* other registration, the set of ids and the total_calls and failed_calls
\* counters are as they were when the call started.
C24_ToggleFrame ==
  \A op \in {"enable", "disable"} :
    (Returned(1, op) /\ frame[1].script_id \in DOMAIN pre[1].scripts) =>
      /\ ret[1] = PyTrue
      /\ hooks = pre[1].hooks
      /\ next_script_id = pre[1].next_script_id
      /\ DOMAIN scripts = DOMAIN pre[1].scripts
      /\ \A i \in DOMAIN scripts :
           IF i = frame[1].script_id
             THEN scripts[i] = [pre[1].scripts[i] EXCEPT !.enabled = (op = "enable")]
             ELSE scripts[i] = pre[1].scripts[i]
      /\ stats.total_calls = pre[1].stats.total_calls
      /\ stats.failed_calls = pre[1].stats.failed_calls
      /\ stats.total_scripts = pre[1].stats.total_scripts
      /\ calls = pre[1].calls
      /\ cleanup_calls = pre[1].cleanup_calls

\* disable_script has returned True for an enabled script bound to both
\* hooks while another script, enabled, is in the store
C24_Witness ==
  /\ Returned(1, "disable")
  /\ frame[1].script_id \in DOMAIN pre[1].scripts
  /\ pre[1].scripts[frame[1].script_id].enabled
  /\ ~scripts[frame[1].script_id].enabled
  /\ DOMAIN scripts[frame[1].script_id].hooks = HookNames
  /\ \E i \in DOMAIN scripts : i # frame[1].script_id /\ scripts[i].enabled

\* C25: failed_calls[K] grows by exactly one for each call of a handler that
\* raises within a dispatch of K, and by nothing else: every handler call
\* that raises reaches the except clause, every pass through the except
\* clause of a dispatch of K adds one to failed_calls[K], and no other step
\* changes a failed count; once k dispatches of K against one handler that
\* always raises have returned, failed_calls[K] is k.
C25_FailedCounted ==
  /\ [](AllIdle /\ DOMAIN scripts = {1} =>
          stats.failed_calls["OnTimer"] =
            IF HandlerRaises(scripts[1].hooks["OnTimer"])
              THEN SumOver([t \in Threads |-> Dispatched(t)], Threads)
              ELSE 0)
  /\ [][/\ \A t \in Threads :
             (/\ pc[t] = "h_call"
              /\ pc'[t] # "h_call"
              /\ HandlerRaises(frame[t].handlers[1][3])) => pc'[t] = "h_except"
        /\ \A h \in HookNames :
             stats'.failed_calls[h] = stats.failed_calls[h] +
               Cardinality({t \in Threads : /\ pc[t] = "h_except"
                                            /\ pc'[t] # "h_except"
                                            /\ frame[t].hook_name = h})]_vars

\* every thread has made MaxCalls dispatches of OnTimer against the one
\* handler, which raises, and failed_calls counts them all
C25_Witness ==
  /\ AllIdle
  /\ DOMAIN scripts = {1}
  /\ scripts[1].hooks["OnTimer"] = "h_raise"
  /\ \A t \in Threads : Dispatched(t) = MaxCalls
  /\ stats.failed_calls["OnTimer"] = MaxCalls * NThreads
  /\ stats.failed_calls["OnParsedMsgChat"] = 0

\* C30: the values returned by list_scripts and get_script_info are
\* point-in-time snapshots: what a caller was given shows the name, priority
\* and enabled flag of each script as they were at the time of the call, also
\* after later enable_script, disable_script, register_script and
\* unregister_script calls.
C30_ReturnedIsSnapshot ==
  \A t \in Threads : \A i \in DOMAIN held[t].at_call :
    /\ held[t].now[i].name = held[t].at_call[i].name
    /\ held[t].now[i].priority = held[t].at_call[i].priority
    /\ held[t].now[i].enabled = held[t].at_call[i].enabled

\* every handler call of the current/last dispatch on thread t was given the
\* arguments that the hook entry point received, unchanged and in order
GivenAsReceived(t) ==
  \A i \in 1..Len(args[t].given) : args[t].given[i] = args[t].received

\* K had one enabled handler when the dispatch on thread t started
SingleHandler(t, K) == Len(Chain(pre[t].scripts, K)) = 1

DispatcherCommandDone(t) ==
  /\ Returned(t, "OnHubCommand")
  /\ admin[t].at = "none"
  /\ Split(admin[t].command) # <<>>
  /\ Split(admin[t].command)[1] = "dispatcher"

\* store, hook table, id counter and script counts are as they were when the
\* current/last operation called on thread t started
RegistryAsBefore(t) ==
  /\ scripts = pre[t].scripts
  /\ hooks = pre[t].hooks
  /\ next_script_id = pre[t].next_script_id
  /\ stats.total_scripts = pre[t].stats.total_scripts
  /\ stats.active_scripts = pre[t].stats.active_scripts
  /\ stats.disabled_scripts = pre[t].stats.disabled_scripts

\* C26: a "dispatcher ..." command from a user of a class below 10 is
\* refused: no notice other than the permission-denied one is sent (so no
\* listing and no statistics), OnHubCommand returns 0, and the registry is as
\* it was; "dispatcher enable <id>" and "dispatcher disable <id>" from such a
\* user change no enabled flag.
C26_BelowMasterRefused ==
  \A t \in Threads :
    (DispatcherCommandDone(t) /\ admin[t].user_class < 10) =>
      /\ ret[t] = PyInt(0)
      /\ notices[t] \in {<<>>, <<"denied">>}
      /\ RegistryAsBefore(t)

\* "dispatcher enable 1" from a user of class 9 has returned 0 with the
\* permission-denied notice sent, script 1 being disabled
C26_Witness ==
  /\ DispatcherCommandDone(1)
  /\ admin[1].user_class = 9
  /\ admin[1].command = <<"dispatcher", " ", "enable", " ", "1">>
  /\ 1 \in DOMAIN scripts
  /\ ~scripts[1].enabled
  /\ notices[1] = <<"denied">>
  /\ ret[1] = PyInt(0)

\* C27: every hub command whose first word is "dispatcher" is reported
\* handled: OnHubCommand returns 0, whatever the class of the user and
\* whether the subcommand is valid, malformed, missing or unknown, or names
\* an id that is unknown or not a number.
C27_AlwaysHandled ==
  \A t \in Threads : DispatcherCommandDone(t) => ret[t] = PyInt(0)

\* one of the enabled handlers bound to OnHubCommand when the command of
\* thread t started returns 0
ChainBlocks(t) ==
  \E i \in DOMAIN pre[t].scripts :
    /\ pre[t].scripts[i].enabled
    /\ AdminHook \in DOMAIN pre[t].scripts[i].hooks
    /\ ReturnsBlock(pre[t].scripts[i].hooks[AdminHook])

\* the store that the command of thread t leaves when every notice is
\* delivered: the flag of the script named by a well-formed enable or disable
\* subcommand of a master is set, and nothing else changes
StoreAfterCommand(t) ==
  LET parts == Split(admin[t].command)
      toggles == /\ ~ChainBlocks(t)
                 /\ ~(admin[t].user_class < 10)
                 /\ Len(parts) > 2
                 /\ Lower(parts[2]) \in {"enable", "disable"}
                 /\ ParsesAsInt(parts[3])
                 /\ IntOf(parts[3]) \in DOMAIN pre[t].scripts
  IN IF toggles
       THEN [pre[t].scripts EXCEPT
               ![IntOf(parts[3])].enabled = (Lower(parts[2]) = "enable")]
       ELSE pre[t].scripts

\* C28: a vh.pm call that fails during an admin subcommand is swallowed:
\* nothing is raised out of OnHubCommand, the command is reported handled
\* (0), and the registry is as it is when the notice is delivered; on every
\* path that sends a notice, also "enable <id>" and "disable <id>" with an id
\* that is not a number.
C28_NotifyFailureSwallowed ==
  \A t \in Threads :
    DispatcherCommandDone(t) =>
      /\ ret[t] # Raised
      /\ ret[t] = PyInt(0)
      /\ scripts = StoreAfterCommand(t)
      /\ hooks = pre[t].hooks

\* the dispatch that returned on thread t called a handler that raised
SomeRaised(t) == Raisers(invoked[t]) > 0

\* C31: a handler that raises changes nothing in the registry except the
\* failed counter of its hook: after a dispatch in which a handler raised,
\* the store (ids, enabled flags), the hook table, the id counter and the
\* script counts are as before the dispatch, the failed counter of the hook
\* has grown by the number of handlers that raised and no other failed
\* counter has changed, every handler that raised is still registered, bound
\* and enabled, and the chain a later dispatch of the hook walks (the enabled
\* entries of the list, in order) is the one this dispatch walked.
C31_RaiseChangesOnlyFailed ==
  \A t \in Threads : (Returned(t, "dispatch") /\ SomeRaised(t)) =>
    LET K == frame[t].hook_name
    IN /\ RegistryAsBefore(t)
       /\ stats.failed_calls =
            [pre[t].stats.failed_calls EXCEPT ![K] = @ + Raisers(invoked[t])]
       /\ \A k \in 1..Len(invoked[t]) :
            LET id == invoked[t][k][1]
                h == invoked[t][k][2]
            IN HandlerRaises(h) =>
                 /\ id \in DOMAIN scripts
                 /\ scripts[id].enabled
                 /\ \E e \in 1..Len(hooks[K]) :
                      hooks[K][e][1] = id /\ hooks[K][e][3] = h
       /\ EnabledOf(hooks[K], scripts) = EnabledOf(copied[t], pre[t].scripts)
       /\ IsSubSeq(invoked[t], EnabledOf(hooks[K], scripts))

\* a dispatch has returned in which one handler raised and a handler after
\* it was called as well
C31_Witness ==
  /\ Returned(1, "dispatch")
  /\ Len(invoked[1]) = 2
  /\ HandlerRaises(invoked[1][1][2])
  /\ ret[1] = PyInt(Allow)

\* thread t is inside UnLoad, or inside an unregister_script that UnLoad called
InUnLoad(t) == pc[t] # "idle" /\ frame[t].op = "UnLoad"

\* C32: UnLoad, run with no concurrent register_script, unregisters every
\* script that is stored when it starts: when it has returned the store is
\* empty, no hook list holds a binding, and the cleanup callback of each of
\* those scripts that has one has been called exactly once more than before
\* (those of scripts unregistered earlier not at all); and an UnLoad that has
\* started returns, also when a cleanup raises.
C32_UnLoadClearsAll ==
  /\ [](Returned(1, "UnLoad") =>
          /\ DOMAIN scripts = {}
          /\ \A h \in TableKeys : hooks[h] = <<>>
          /\ ret[1] = PyNone
          /\ \A i \in ScriptIds :
               cleanup_calls[i] = pre[1].cleanup_calls[i] +
                 (IF i \in DOMAIN pre[1].scripts /\ pre[1].scripts[i].cleanup # "None"
                    THEN 1 ELSE 0))
  /\ (InUnLoad(1) ~> Returned(1, "UnLoad"))

\* UnLoad has returned after unregistering two scripts, the first of which
\* has a cleanup that raises
C32_Witness ==
  /\ Returned(1, "UnLoad")
  /\ DOMAIN pre[1].scripts = {1, 2}
  /\ CleanupRaises(pre[1].scripts[1].cleanup)
  /\ cleanup_calls[1] = 1

\* C33: only the integer 0 returned by a handler blocks: a handler that
\* returns any other value (a non-zero integer, None, False, a str, a
\* non-integer zero) leaves the result 1 and lets the chain go on with the
\* next handler.  So a dispatch that has returned has called the chain of its
\* hook up to the first handler that returns the integer 0, or to the end,
\* and has returned 0 in the first case and 1 in the second.
C33_OnlyIntZeroBlocks ==
  \A t \in Threads : Returned(t, "dispatch") =>
    LET K == frame[t].hook_name
        exp == Chain(pre[t].scripts, K)
        inv == invoked[t]
        blocks(k) == ReturnsBlock(pre[t].scripts[exp[k]].hooks[K])
        stop == {k \in 1..Len(exp) : blocks(k) /\ \A j \in 1..(k - 1) : ~blocks(j)}
    IN /\ Len(inv) = (IF stop = {} THEN Len(exp) ELSE CHOOSE k \in stop : TRUE)
       /\ \A i \in 1..Len(inv) : i <= Len(exp) /\ inv[i][1] = exp[i]
       /\ ret[t] = (IF stop = {} THEN PyInt(Allow) ELSE PyInt(Block))

\* the number of scripts in the store whose enabled flag is on
EnabledCount == Cardinality({i \in DOMAIN scripts : scripts[i].enabled})

\* the call that returned on thread t was op(id) for a script id that was in
\* the store with its flag equal to flag when the call started
ToggledFrom(t, op, flag) ==
  /\ Returned(t, op)
  /\ frame[t].script_id \in DOMAIN pre[t].scripts
  /\ pre[t].scripts[frame[t].script_id].enabled = flag

\* C36: enable_script(id) of a script that is already enabled and
\* disable_script(id) of one that is already disabled return True and leave
\* every statistics counter as it was; whenever no operation is in progress
\* active_scripts is the number of scripts in the store whose enabled flag is
\* on, however often enable and disable are repeated.
C36_ToggleIdempotent ==
  /\ \A t \in Threads :
       (ToggledFrom(t, "enable", TRUE) \/ ToggledFrom(t, "disable", FALSE)) =>
         /\ ret[t] = PyTrue
         /\ stats = pre[t].stats
         /\ scripts = pre[t].scripts
  /\ AllIdle => stats.active_scripts = EnabledCount

\* C37: the active count that get_stats reports is never negative after any
\* sequence of completed operations, and unregister_script of a script that
\* is disabled (or was registered with auto_enable false) does not take the
\* active count below the number of enabled scripts.
C37_ActiveNotNegative ==
  /\ AllIdle => StatsDict(stats, hooks).active_scripts >= 0
  /\ \A t \in Threads :
       (/\ Returned(t, "unregister")
        /\ frame[t].script_id \in DOMAIN pre[t].scripts
        /\ ~pre[t].scripts[frame[t].script_id].enabled
        /\ pre[t].stats.active_scripts >= EnabledCount)
         => stats.active_scripts >= EnabledCount

\* C38: whenever no operation is in progress the disabled set of the
\* statistics holds only ids of scripts in the store, and the disabled count
\* is the number of scripts in the store whose enabled flag is off; also when
\* disable_script(id) runs concurrently with unregister_script(id), and for
\* scripts registered with auto_enable false.
C38_DisabledSetMatchesStore ==
  AllIdle =>
    /\ stats.disabled_scripts \subseteq DOMAIN scripts
    /\ StatsDict(stats, hooks).disabled_scripts
         = Cardinality({i \in DOMAIN scripts : ~scripts[i].enabled})

\* script id was registered and a call unregister_script(id) has returned
\* True: id is out of the store and no thread is still inside the call that
\* removed it
UnregisterReturned(id) ==
  /\ \E k \in 1..Len(issued) : issued[k].script_id = id
  /\ id \notin DOMAIN scripts
  /\ \A t \in Threads :
       ~(/\ pc[t] \in {"u_cleanup", "u_hooks", "u_hook", "u_stats"}
         /\ frame[t].script_id = id)

\* C35: once unregister_script(id) has returned True (so the cleanup callback
\* of id has run), no call of a handler of id starts any more, under every
\* interleaving with dispatches that were in progress when unregister_script
\* was called.
C35_NoCallAfterUnregister ==
  [][\A id \in ScriptIds : UnregisterReturned(id) => calls'[id] = calls[id]]_vars

\* C40: OnHubCommand first runs the handlers bound to OnHubCommand, counting
\* exactly one dispatch per host command: while that chain runs no notice has
\* been sent and no enabled flag has changed; when the command has returned,
\* total_calls has grown by one at OnHubCommand and nowhere else; and if the
\* chain returned 0, OnHubCommand has returned 0 without sending any notice
\* (so also no permission-denied one) and with the registry as it was (no
\* subcommand was executed).  A "dispatcher" command is interpreted only when
\* the chain returned 1.
C40_ChainFirst ==
  \A t \in Threads :
    /\ (admin[t].at = "chain" /\ pc[t] # "idle") =>
         /\ notices[t] = <<>>
         /\ scripts = pre[t].scripts
    /\ (Returned(t, "OnHubCommand") /\ admin[t].at = "none") =>
         /\ stats.total_calls =
              [pre[t].stats.total_calls EXCEPT ![AdminHook] = @ + 1]
         /\ ChainBlocks(t) =>
              /\ ret[t] = PyInt(0)
              /\ notices[t] = <<>>
              /\ RegistryAsBefore(t)
         /\ (notices[t] # <<>> \/ scripts # pre[t].scripts) => ~ChainBlocks(t)

\* "dispatcher enable 1" of a master, script 1 being disabled, has returned 0
\* because the handler of script 2 blocked the command: script 1 is still
\* disabled
C40_Witness ==
  /\ Returned(1, "OnHubCommand") /\ admin[1].at = "none"
  /\ admin[1].command = <<"dispatcher", " ", "enable", " ", "1">>
  /\ admin[1].user_class = 10
  /\ ChainBlocks(1)
  /\ 1 \in DOMAIN scripts /\ ~scripts[1].enabled
  /\ ret[1] = PyInt(0)

\* the operations that start with `with _scripts_lock:`
NeedsStoreLock(callee) ==
  callee \in {"register_script", "unregister_script", "enable_script",
              "disable_script", "get_script_info", "list_scripts"}

\* thread t is at a `with` statement of a lock that it holds itself: the
\* locks are not reentrant, so it waits forever
SelfDeadlock(t) ==
  \/ /\ scripts_lock = t
     /\ \/ AtCallSite(t) /\ NeedsStoreLock(stack[t][1].callee)
        \/ pc[t] = "h_check"
  \/ /\ hooks_lock = t
     /\ pc[t] \in {"r_hooks", "u_hooks", "h_snapshot"}

\* the operation that the host called on thread t, which is in progress or
\* the last one that returned
Outermost(t) ==
  IF stack[t] = <<>> THEN frame[t].op ELSE stack[t][Len(stack[t])].frame.op

\* the operation op that the host called on thread t is in progress / has
\* returned to the host
InOperation(t, op) ==
  Outermost(t) = op /\ (pc[t] # "idle" \/ stack[t] # <<>>)
HasReturned(t, op) == stack[t] = <<>> /\ Returned(t, op)

\* C39: a handler may call back into the registry while it is being called
\* (register_script, unregister_script of its own script or of another,
\* enable_script, disable_script, get_script_info, list_scripts, get_stats or
\* a hook entry point of the same or another hook): the thread holds no lock
\* when the handler makes its call and never waits for a lock that it holds
\* itself, and the enclosing dispatch then completes and returns.
C39_HandlerMayCallBack ==
  /\ [](\A t \in Threads :
          /\ ~SelfDeadlock(t)
          /\ (AtCallSite(t) /\ stack[t][1].pc = "h_call") => LocksHeld(t) = {})
  /\ \A t \in Threads : InOperation(t, "dispatch") ~> HasReturned(t, "dispatch")

\* a dispatch has returned 1 whose handler, of script 1, unregistered its own
\* script (which has a cleanup callback) while it was being called
C39_Witness ==
  /\ HasReturned(1, "dispatch")
  /\ ret[1] = PyInt(Allow)
  /\ invoked[1] = << <<1, "h_calls">> >>
  /\ 1 \in DOMAIN pre[1].scripts /\ 1 \notin DOMAIN scripts
  /\ cleanup_calls[1] = 1

\* thread u is inside a call of a cleanup callback
InCleanup(u) ==
  \/ pc[u] = "u_cleanup"
  \/ stack[u] # <<>> /\ stack[u][Len(stack[u])].pc = "u_cleanup"

\* C34: unregister_script(id) returns also when the cleanup callback of id
\* calls a public operation of the registry (list_scripts, get_script_info,
\* enable_script, disable_script, register_script, unregister_script or a
\* hook entry point): no thread waits for a lock that it holds itself, no
\* dispatch of another thread waits for a lock that is held for the duration
\* of a cleanup callback, and an unregister_script that has started returns.
C34_CleanupMayCallBack ==
  /\ [](\A t \in Threads : ~SelfDeadlock(t))
  /\ [](\A t, u \in Threads :
          ~(t # u /\ pc[t] = "h_check" /\ scripts_lock = u /\ InCleanup(u)))
  /\ \A t \in Threads : InOperation(t, "unregister") ~> HasReturned(t, "unregister")

====
